---- MODULE Spec2Model ----
(***************************************************************************)
(* Model of the ScaleIT bridge device registry (src-rust/src/              *)
(* device_manager.rs), the transport layer (host/src/connection.rs,        *)
(* host/src/commands.rs) and the device adapter (miernik/src/device.rs).   *)
(*                                                                         *)
(* Strings whose characters matter (protocol tags, command names) are      *)
(* sequences of one-character strings, so case conversion is computed.     *)
(***************************************************************************)
EXTENDS Integers, Sequences, FiniteSets, TLC

(***************************************************************************)
(* Bounds of the model.                                                    *)
(***************************************************************************)
MaxOps == 2
MaxObjs == 6
MaxConns == 2

(***************************************************************************)
(* Identifiers.                                                            *)
(***************************************************************************)
DeviceIds == {"d1", "d2"}
UnknownId == "dx"
RequestIds == DeviceIds \cup {UnknownId}
HostIds == {"h1", "h2"}
MissingHostId == "hx"
MiernikIds == {"m1", "m2"}
MissingMiernikId == "mx"
Tasks == 1..MaxOps
ObjIds == 1..MaxObjs
NoObj == 0
NoConn == 0
NoTask == 0

(***************************************************************************)
(* Character strings.                                                      *)
(***************************************************************************)
LowerLetters == <<"a","b","c","d","e","f","g","h","i","j","k","l","m",
                  "n","o","p","q","r","s","t","u","v","w","x","y","z">>
UpperLetters == <<"A","B","C","D","E","F","G","H","I","J","K","L","M",
                  "N","O","P","Q","R","S","T","U","V","W","X","Y","Z">>

IndexIn(c, letters) ==
    IF \E i \in DOMAIN letters : letters[i] = c
    THEN CHOOSE i \in DOMAIN letters : letters[i] = c
    ELSE 0

UpperChar(c) ==
    IF IndexIn(c, LowerLetters) # 0 THEN UpperLetters[IndexIn(c, LowerLetters)] ELSE c

LowerChar(c) ==
    IF IndexIn(c, UpperLetters) # 0 THEN LowerLetters[IndexIn(c, UpperLetters)] ELSE c

to_uppercase(s) == [i \in DOMAIN s |-> UpperChar(s[i])]

to_lowercase(s) == [i \in DOMAIN s |-> LowerChar(s[i])]

(***************************************************************************)
(* Protocol::from_str.                                                     *)
(***************************************************************************)
RINCMD == <<"R","I","N","C","M","D">>
RINSTRUM == <<"R","I","N","S","T","R","U","M">>
DINI_ASCII == <<"D","I","N","I","_","A","S","C","I","I">>
DINI_ARGEO == <<"D","I","N","I","_","A","R","G","E","O">>
ASCII == <<"A","S","C","I","I">>

Protocol_from_str(s) ==
    LET u == to_uppercase(s) IN
    IF u = RINCMD \/ u = RINSTRUM THEN "Rincmd"
    ELSE IF u = DINI_ASCII \/ u = DINI_ARGEO \/ u = ASCII THEN "DiniAscii"
    ELSE "Custom"

(***************************************************************************)
(* Responses and readings (miernik/src/parsers.rs, models WeightReading).  *)
(* A number read by str::parse::<f64> is kept exactly: its sign, its        *)
(* integer digits without leading zeros and its fraction digits without    *)
(* trailing zeros, so two numbers are equal here exactly when the parsed   *)
(* f64 are equal.                                                          *)
(***************************************************************************)
Digits == <<"0","1","2","3","4","5","6","7","8","9">>

IsDigit(c) == IndexIn(c, Digits) # 0

(* The class [A-Za-z%] of the unit patterns. *)
IsUnitChar(c) == IndexIn(c, LowerLetters) # 0 \/ IndexIn(c, UpperLetters) # 0 \/ c = "%"

(* The class \s; a response here carries no other white space than blanks. *)
IsSpace(c) == c \in {" ", "\t", "\n", "\r"}

IsSign(c) == c = "+" \/ c = "-"

At(s, i) == IF i \in DOMAIN s THEN s[i] ELSE ""

(* First position at or after i that is not in the class: the end of a
   greedy run. *)
RunEnd(s, i, class) ==
    LET In(c) == CASE class = "\\s" -> IsSpace(c)
                   [] class = "\\d" -> IsDigit(c)
                   [] class = "\\S" -> ~IsSpace(c)
                   [] OTHER -> IsUnitChar(c)
    IN IF i > Len(s) THEN i
       ELSE CHOOSE j \in i..(Len(s) + 1) :
               /\ \A k \in i..(j - 1) : In(s[k])
               /\ (j = Len(s) + 1 \/ ~In(s[j]))

StartsAt(s, i, w) == i >= 1 /\ i + Len(w) - 1 <= Len(s) /\ SubSeq(s, i, i + Len(w) - 1) = w

Min(S) == CHOOSE x \in S : \A y \in S : x <= y

(* str::trim *)
trim(s) ==
    LET a == RunEnd(s, 1, "\\s") IN
    IF a > Len(s) THEN << >>
    ELSE LET b == CHOOSE j \in a..Len(s) :
                     ~IsSpace(s[j]) /\ \A k \in (j + 1)..Len(s) : IsSpace(s[k])
         IN SubSeq(s, a, b)

(* Integer digits without their leading zeros. *)
RECURSIVE StripLeadingZeros(_)
StripLeadingZeros(ds) ==
    IF ds # << >> /\ ds[1] = "0" THEN StripLeadingZeros(Tail(ds)) ELSE ds

RECURSIVE StripZeros(_)
StripZeros(ds) ==
    IF ds # << >> /\ ds[Len(ds)] = "0" THEN StripZeros(SubSeq(ds, 1, Len(ds) - 1)) ELSE ds

(* parse::<f64> of sign, integer digits and fraction digits. *)
F64(sign, int, frac) ==
    LET i == StripLeadingZeros(int)
        f == StripZeros(frac)
    IN [ neg |-> sign = "-" /\ ~(i = << >> /\ f = << >>), int |-> i, frac |-> f ]

Zero == F64("", << >>, << >>)

Negated(v) == IF v = Zero THEN v ELSE [ v EXCEPT !.neg = ~v.neg ]

kg == <<"k","g">>
lb == <<"l","b">>
gram == <<"g">>

WeightReading(gross, net, unit, is_stable) ==
    [ ok |-> TRUE, gross_weight |-> gross, net_weight |-> net, unit |-> unit,
      is_stable |-> is_stable ]

(* Err(ProtocolError) of a parser. *)
ParseError ==
    [ ok |-> FALSE, gross_weight |-> Zero, net_weight |-> Zero, unit |-> << >>,
      is_stable |-> FALSE ]

(* Nothing parsed yet. *)
NoReading == [ ParseError EXCEPT !.unit = <<"?">> ]

(***************************************************************************)
(* parse_rincmd_response.                                                  *)
(***************************************************************************)
ReadGrossCode == <<"2","0","0","5","0","0","2","6">>
ReadNetCode == <<"2","0","0","5","0","0","2","5">>

(* RINCMD_PATTERN1 (\d{8})([+-])(\d+\.\d+)(kg|lb) matched from position i:
   the positions of the sign, the point and the unit. *)
Pattern1Pos(s, i) ==
    LET a == i + 8
        b == RunEnd(s, a + 1, "\\d")
        c == RunEnd(s, b + 1, "\\d")
    IN [ sign |-> a, point |-> b, unit |-> c ]

Pattern1At(s, i) ==
    \E p \in { Pattern1Pos(s, i) } :
    /\ p.sign <= Len(s)
    /\ \A k \in i..(p.sign - 1) : IsDigit(s[k])
    /\ IsSign(s[p.sign])
    /\ p.point > p.sign + 1 /\ At(s, p.point) = "."
    /\ p.unit > p.point + 1
    /\ (StartsAt(s, p.unit, kg) \/ StartsAt(s, p.unit, lb))

Pattern1Starts(s) == { i \in DOMAIN s : Pattern1At(s, i) }

(* Lines 29-50: the reading of the leftmost match of pattern 1. *)
rincmd_pattern1(s) ==
    LET Reading(i, p) ==
            LET command_code == SubSeq(s, i, i + 7)
                weight_val == F64(s[p.sign], SubSeq(s, p.sign + 1, p.point - 1),
                                  SubSeq(s, p.point + 1, p.unit - 1))
                unit == to_lowercase(SubSeq(s, p.unit, p.unit + 1))
                is_gross == command_code = ReadGrossCode
            IN WeightReading(IF is_gross THEN weight_val ELSE Zero,
                             IF is_gross THEN Zero ELSE weight_val,
                             unit, TRUE)
        Captures(i) == Reading(i, Pattern1Pos(s, i))
    IN Captures(Min(Pattern1Starts(s)))

(* RINCMD_PATTERN2 matched from position i: a colon, an optional sign,
   digits with an optional point and further digits, kg, lb or g, and one
   of G, N, T, Z, with any white space between them. *)
UnitLenAt(s, i) ==
    IF StartsAt(s, i, kg) \/ StartsAt(s, i, lb) THEN 2
    ELSE IF StartsAt(s, i, gram) THEN 1 ELSE 0

Pattern2Pos(s, i) ==
    LET AfterSign(j) == IF IsSign(At(s, j)) THEN j + 1 ELSE j
        AfterPoint(j) == IF At(s, j) = "." THEN j + 1 ELSE j
        AfterUnit(j) == j + UnitLenAt(s, j)
        sign == RunEnd(s, i + 1, "\\s")
        int == RunEnd(s, AfterSign(sign), "\\s")
        point == RunEnd(s, int, "\\d")
        frac == AfterPoint(point)
        fracEnd == RunEnd(s, frac, "\\d")
        unit == RunEnd(s, fracEnd, "\\s")
        status == RunEnd(s, AfterUnit(unit), "\\s")
    IN [ sign |-> sign, int |-> int, point |-> point, frac |-> frac,
         fracEnd |-> fracEnd, unit |-> unit, status |-> status ]

Pattern2At(s, i) ==
    \E p \in { Pattern2Pos(s, i) } :
    /\ s[i] = ":"
    /\ p.point > p.int
    /\ UnitLenAt(s, p.unit) > 0
    /\ At(s, p.status) \in {"G", "N", "T", "Z"}

Pattern2Starts(s) == { i \in DOMAIN s : Pattern2At(s, i) }

(* Lines 52-81. *)
rincmd_pattern2(s) ==
    LET Reading(p) ==
            LET numeric_value == F64("", SubSeq(s, p.int, p.point - 1),
                                     SubSeq(s, p.frac, p.fracEnd - 1))
                weight_val == IF At(s, p.sign) = "-" THEN Negated(numeric_value)
                              ELSE numeric_value
                unit == to_lowercase(SubSeq(s, p.unit, p.unit + UnitLenAt(s, p.unit) - 1))
                status_char == s[p.status]
                is_net == status_char = "N"
                is_stable == status_char \in {"G", "N", "Z", "T"}
            IN WeightReading(IF is_net THEN Zero ELSE weight_val,
                             IF is_net THEN weight_val ELSE Zero,
                             unit, is_stable)
    IN Reading(Pattern2Pos(s, Min(Pattern2Starts(s))))

(* A number pattern [+-]?\s*\d+(?:\.\d+)? (spaces true, RINCMD_NUM_RE) or
   [+-]?\d+(?:\.\d+)? (spaces false, DINI_VALUE_RE) matched from position i. *)
NumPos(s, i, spaces) ==
    LET AfterSpaces(j) == IF spaces THEN RunEnd(s, j, "\\s") ELSE j
        HasFrac(j) == At(s, j) = "." /\ IsDigit(At(s, j + 1))
        End(j) == IF HasFrac(j) THEN RunEnd(s, j + 1, "\\d") ELSE j
        afterSign == IF IsSign(At(s, i)) THEN i + 1 ELSE i
        int == AfterSpaces(afterSign)
        point == RunEnd(s, int, "\\d")
    IN [ sign |-> i, int |-> int, point |-> point, hasFrac |-> HasFrac(point),
         end |-> End(point) ]

NumAt(s, i, spaces) == \E p \in { NumPos(s, i, spaces) } : p.point > p.int

NumStarts(s, spaces) == { i \in DOMAIN s : NumAt(s, i, spaces) }

NumValue(s, p) ==
    F64(IF IsSign(At(s, p.sign)) THEN s[p.sign] ELSE "",
        SubSeq(s, p.int, p.point - 1),
        IF p.hasFrac THEN SubSeq(s, p.point + 1, p.end - 1) ELSE << >>)

(* The first run of unit characters at or after position from, or none. *)
UnitRunStarts(s, from) == { i \in DOMAIN s : i >= from /\ IsUnitChar(s[i]) }

FirstUnitRun(s, from, default) ==
    IF UnitRunStarts(s, from) = {} THEN default
    ELSE LET u == Min(UnitRunStarts(s, from)) IN SubSeq(s, u, RunEnd(s, u, "[A-Za-z%]") - 1)

ColonPositions(s) == { i \in DOMAIN s : s[i] = ":" }

(* The fallback scan that takes the stability from the leading flag alone. *)
rincmd_fallback_flag_only(response) ==
    LET Reading(first, search_space, p) ==
            LET weight_val == NumValue(search_space, p)
                is_stable == first = <<"S">>
                unit == FirstUnitRun(search_space, p.end, kg)
            IN WeightReading(weight_val, weight_val, unit, is_stable)
        Search(first, search_space) ==
            IF NumStarts(search_space, TRUE) = {} THEN ParseError
            ELSE Reading(first, search_space,
                         NumPos(search_space, Min(NumStarts(search_space, TRUE)), TRUE))
        SearchSpace(cleaned) ==
            IF ColonPositions(cleaned) # {}
            THEN trim(SubSeq(cleaned, Min(ColonPositions(cleaned)) + 1, Len(cleaned)))
            ELSE cleaned
        Cleaned(cleaned) ==
            IF cleaned = <<"E">> \/ cleaned = << >> THEN ParseError
            ELSE Search(SubSeq(cleaned, 1, RunEnd(cleaned, 1, "\\S") - 1),
                        SearchSpace(cleaned))
    IN Cleaned(trim(response))

(* Lines 83-158: the form "S 00000.000 kg" / "U 00000.000 kg". *)
rincmd_fallback(response) ==
    LET Reading(first, search_space, p) ==
            LET weight_val == NumValue(search_space, p)
                is_stable == first = <<"S">> \/ weight_val = Zero
                unit == FirstUnitRun(search_space, p.end, kg)
            IN WeightReading(weight_val, weight_val, unit, is_stable)
        Search(first, search_space) ==
            IF NumStarts(search_space, TRUE) = {} THEN ParseError
            ELSE Reading(first, search_space,
                         NumPos(search_space, Min(NumStarts(search_space, TRUE)), TRUE))
        SearchSpace(cleaned) ==
            IF ColonPositions(cleaned) # {}
            THEN trim(SubSeq(cleaned, Min(ColonPositions(cleaned)) + 1, Len(cleaned)))
            ELSE cleaned
        Cleaned(cleaned) ==
            IF cleaned = <<"E">> \/ cleaned = << >> THEN ParseError
            ELSE Search(SubSeq(cleaned, 1, RunEnd(cleaned, 1, "\\S") - 1),
                        SearchSpace(cleaned))
    IN Cleaned(trim(response))

(* parse_rincmd_response that tries the "S 00000.000 kg" form first. *)
parse_rincmd_response_fallback_first(response) ==
    IF response = << >> THEN ParseError
    ELSE IF rincmd_fallback(response).ok THEN rincmd_fallback(response)
    ELSE IF Pattern1Starts(response) # {} THEN rincmd_pattern1(response)
    ELSE IF Pattern2Starts(response) # {} THEN rincmd_pattern2(response)
    ELSE ParseError

parse_rincmd_response(response) ==
    IF response = << >> THEN ParseError
    ELSE IF Pattern1Starts(response) # {} THEN rincmd_pattern1(response)
    ELSE IF Pattern2Starts(response) # {} THEN rincmd_pattern2(response)
    ELSE rincmd_fallback(response)

(***************************************************************************)
(* parse_dini_ascii_response.                                              *)
(***************************************************************************)
OK == <<"O","K">>

Contains(s, c) == \E i \in DOMAIN s : s[i] = c

parse_dini_ascii_response(response) ==
    LET Reading(cleaned, p) ==
            LET weight_val == NumValue(cleaned, p)
                unit == to_lowercase(FirstUnitRun(cleaned, 1, kg))
                is_stable == ~Contains(cleaned, "U") /\ ~Contains(cleaned, "u")
            IN WeightReading(weight_val, weight_val, unit, is_stable)
        Cleaned(cleaned) ==
            IF response = << >> THEN ParseError
            ELSE IF to_uppercase(cleaned) = OK THEN WeightReading(Zero, Zero, kg, TRUE)
            ELSE IF NumStarts(cleaned, FALSE) = {} THEN ParseError
            ELSE Reading(cleaned, NumPos(cleaned, Min(NumStarts(cleaned, FALSE)), FALSE))
    IN Cleaned(trim(response))

(***************************************************************************)
(* DiniArgeoAsciiAdapter::parse_weight_from_response and to_weight_reading *)
(* (src/adapters/dini_argeo.rs).                                           *)
(***************************************************************************)
(* The pattern ([+-]?\s*\d+\.\d+)\s*(kg|lb|g) matched from position i. *)
GenericPos(s, i) ==
    LET afterSign == IF IsSign(At(s, i)) THEN i + 1 ELSE i
        int == RunEnd(s, afterSign, "\\s")
        point == RunEnd(s, int, "\\d")
        fracEnd == RunEnd(s, point + 1, "\\d")
        unit == RunEnd(s, fracEnd, "\\s")
    IN [ sign |-> i, int |-> int, point |-> point, fracEnd |-> fracEnd, unit |-> unit ]

GenericAt(s, i) ==
    \E p \in { GenericPos(s, i) } :
    /\ p.point > p.int /\ At(s, p.point) = "."
    /\ p.fracEnd > p.point + 1
    /\ UnitLenAt(s, p.unit) > 0

GenericStarts(s) == { i \in DOMAIN s : GenericAt(s, i) }

CommaPositions(s) == { i \in DOMAIN s : s[i] = "," }

Max(S) == CHOOSE x \in S : \A y \in S : x >= y

(* response.split(',').next() and response.split(',').last() *)
FirstField(s) ==
    IF CommaPositions(s) = {} THEN s ELSE SubSeq(s, 1, Min(CommaPositions(s)) - 1)

LastField(s) ==
    IF CommaPositions(s) = {} THEN s ELSE SubSeq(s, Max(CommaPositions(s)) + 1, Len(s))

parse_weight_from_response(response) ==
    LET Matched(p) ==
            LET value == F64(IF IsSign(At(response, p.sign)) THEN response[p.sign] ELSE "",
                             SubSeq(response, p.int, p.point - 1),
                             SubSeq(response, p.point + 1, p.fracEnd - 1))
                unit == to_lowercase(SubSeq(response, p.unit,
                                            p.unit + UnitLenAt(response, p.unit) - 1))
            IN WeightReading(value, value, unit, TRUE)
        Reading(is_stable, search_space, p) ==
            LET value == NumValue(search_space, p)
                unit == FirstUnitRun(search_space, p.end, << >>)
            IN WeightReading(value, value, unit, is_stable)
        Search(first_token, search_space) ==
            IF NumStarts(search_space, FALSE) = {} THEN ParseError
            ELSE Reading(At(first_token, 1) = "S" /\ At(first_token, 1) # "U",
                         search_space,
                         NumPos(search_space, Min(NumStarts(search_space, FALSE)), FALSE))
    IN IF trim(response) = << >> THEN ParseError
       ELSE IF GenericStarts(response) # {}
       THEN Matched(GenericPos(response, Min(GenericStarts(response))))
       ELSE Search(to_uppercase(trim(FirstField(response))), trim(LastField(response)))

(***************************************************************************)
(* Responses a device may send.                                            *)
(***************************************************************************)
ResponseCodes ==
    { ReadGrossCode, ReadNetCode,
      <<"1","2","3","4","5","6","7","8">>,
      <<"2","0","0","5","0","0","2">>,
      << >> }

ResponseSigns == { <<"+">>, <<"-">>, << >> }

ResponseNumbers ==
    { <<"1","2","3",".","4","5">>,
      <<"2","3",".","5">>,
      <<"1","2",".","5">>,
      <<"0",".","0">>,
      <<"1","2","3">>,
      <<"0","0","0","2","3",".","4","5","0">> }

ResponseUnits == { kg, lb, gram, <<"K","G">>, <<" ","k","g">>, <<"t">>, << >> }

ResponsePrefixes == { << >>, <<"9">>, <<":">>, <<"S"," ">> }

ResponseSuffixes == { << >>, <<" ","G">> }

RincmdResponses ==
    { pre \o code \o sign \o num \o unit \o suf :
        pre \in ResponsePrefixes, code \in ResponseCodes, sign \in ResponseSigns,
        num \in ResponseNumbers, unit \in ResponseUnits, suf \in ResponseSuffixes }
    \cup { <<":"," ","-","2","3"," ","k","g"," ","G">>,
      <<":"," ","+","1","2","3",".","4","5"," ","k","g"," ","N">>,
      <<"S"," ","-","3","2",".","0","0","0"," ","k","g">>,
      <<"U"," ","0","0","0","3","2",".","0","0","0"," ","k","g">>,
      <<"U"," ","0",".","0","0","0"," ","k","g">>,
      <<"S"," ","1","2">>,
      <<"F","F","F","F","F","F","F","F">>,
      <<"8","0","0","0","0","0","0","0">>,
      <<"0","0","0","0","0","0","0","A">>,
      <<":","5"," ","k","g",":","7"," ","k","g">>,
      <<"E">>,
      << >>,
      <<" "," "," ">> }

DiniFirstFields == { <<"S","T">>,
      <<"U","S">>,
      <<"S">>,
      <<"O","L">> }

DiniSecondFields == { <<"G","S">>,
      <<"N","T">> }

DiniResponses ==
    { first \o <<",">> \o second \o <<",">> \o sign \o num \o unit :
        first \in DiniFirstFields, second \in DiniSecondFields, sign \in ResponseSigns,
        num \in ResponseNumbers, unit \in ResponseUnits }
    \cup { sign \o num \o unit :
        sign \in ResponseSigns, num \in ResponseNumbers, unit \in ResponseUnits }
    \cup { <<"O","K">>,
      <<"o","k">> }

Responses == RincmdResponses \cup DiniResponses

(* Protocol tags a configuration may carry. *)
ProtocolTags ==
    { RINCMD,
      <<"r","i","n","s","t","r","u","m">>,
      <<"D","i","n","i","_","A","r","g","e","o">>,
      <<"a","s","c","i","i">>,
      <<"I","N","V","A","L","I","D">>,
      <<"r","i","n","c","m","d","2">>,
      << >> }

(***************************************************************************)
(* Configuration (models/host.rs AppConfig, HostConfig; models/miernik.rs  *)
(* MiernikConfig; the DeviceConfig used by device_manager.rs).             *)
(***************************************************************************)
EmptyMap == [x \in {} |-> 0]

Put(map, k, v) == [x \in (DOMAIN map) \cup {k} |-> IF x = k THEN v ELSE map[x]]

Remove(map, k) == [x \in (DOMAIN map) \ {k} |-> map[x]]

HostConfig(kind) == [kind |-> kind]

MiernikConfig(protocol, commands) == [protocol |-> protocol, commands |-> commands]

DeviceConfig(host_id, miernik_id, enabled) ==
    [host_id |-> host_id, miernik_id |-> miernik_id, enabled |-> enabled]

AppConfig(h, m, d) == [hosts |-> h, mierniki |-> m, devices |-> d]

NoConfig == [hosts |-> EmptyMap, mierniki |-> EmptyMap, devices |-> EmptyMap]

(* Command names: the configured key and the names a request may carry. *)
readGross == <<"r","e","a","d","G","r","o","s","s">>
Bogus == <<"n","o","p","e">>
Commands == { to_uppercase(readGross), Bogus }
ConfiguredCommands == { readGross }

(***************************************************************************)
(* DeviceManager::build_adapters: one adapter per enabled device; the      *)
(* first enabled device with a missing host, a missing miernik or a        *)
(* Custom protocol makes the whole call fail with ConfigurationError.      *)
(* Disabled devices are skipped before any of these look-ups.              *)
(***************************************************************************)
AdapterBuildFails(h, m, dc) ==
    \/ dc.host_id \notin DOMAIN h
    \/ dc.miernik_id \notin DOMAIN m
    \/ Protocol_from_str(m[dc.miernik_id].protocol) = "Custom"

(* build_adapters without the skip of disabled devices. *)
build_adapters_validates_disabled(h, m, d) ==
    IF \E id \in DOMAIN d : AdapterBuildFails(h, m, d[id])
    THEN [ok |-> FALSE, err |-> "ConfigurationError", ids |-> {}]
    ELSE [ok |-> TRUE, err |-> "", ids |-> { id \in DOMAIN d : d[id].enabled }]

build_adapters(h, m, d) ==
    LET considered == { id \in DOMAIN d : d[id].enabled } IN
    IF \E id \in considered : AdapterBuildFails(h, m, d[id])
    THEN [ok |-> FALSE, err |-> "ConfigurationError", ids |-> {}]
    ELSE [ok |-> TRUE, err |-> "", ids |-> considered]

(* from_config that keeps the keys as they are configured. *)
from_config_commands_keeps_case(commands) == commands

(* RinstrumC320::from_config / DiniArgeoDFW::from_config: command keys are
   lower-cased when the adapter is built. *)
from_config_commands(commands) == { to_lowercase(k) : k \in commands }

(* The adapter object built for device id (Device::new over                *)
(* convert_host_to_connection): an empty handle slot, a free serial mutex. *)
NewAdapter(h, m, d, id) ==
    [ dev   |-> id,
      kind  |-> h[d[id].host_id].kind,
      host  |-> d[id].host_id,
      proto |-> Protocol_from_str(m[d[id].miernik_id].protocol),
      cmds  |-> from_config_commands(m[d[id].miernik_id].commands),
      slot  |-> NoConn,
      mutex |-> NoTask ]

FreeObj == [ dev |-> "", kind |-> "", host |-> "", proto |-> "", cmds |-> {},
             slot |-> NoConn, mutex |-> NoTask ]

VARIABLES
    registry,     \* "none" before construction, "ok" once built, or the error of from_path
    disk,         \* the configuration file at config_path
    hosts,        \* DeviceManager.hosts
    mierniki,     \* DeviceManager.mierniki
    devices,      \* DeviceManager.devices
    adapters,     \* DeviceManager.adapters: device id -> adapter object
    objs,         \* the adapter objects (Arc<dyn DeviceAdapter>) ever built
    readers,      \* tasks holding a read guard of the adapters RwLock
    writer,       \* task that set the writer bit of the adapters RwLock
    tasks         \* the calls made so far, one record per call

vars == << registry, disk, hosts, mierniki, devices, adapters, objs, readers, writer, tasks >>

IdleTask ==
    [ op |-> "idle", pc |-> "idle", dev |-> "", cmd |-> << >>, obj |-> NoObj,
      conn |-> NoConn, todo |-> {}, newmap |-> EmptyMap, snap |-> NoConfig,
      io |-> 0, log |-> << >>, pre |-> NoConfig, preAdapters |-> EmptyMap,
      response |-> << >>, reading |-> NoReading, disconnected |-> {},
      wire |-> << >>, received |-> << >>,
      result |-> "", err |-> "" ]

(* Fixed order in which new adapter objects receive their object ids. *)
RECURSIVE Enumerate(_)
Enumerate(S) ==
    IF S = {} THEN << >>
    ELSE LET x == CHOOSE y \in S : TRUE IN <<x>> \o Enumerate(S \ {x})

PositionOf(seq, x) == CHOOSE i \in DOMAIN seq : seq[i] = x

Allocated(o) == { i \in ObjIds : o[i].dev # "" }

(* The adapter map and object table after build_adapters succeeded for ids. *)
AllocMap(o, ids) ==
    LET base == Cardinality(Allocated(o))
        order == Enumerate(ids)
    IN [ id \in ids |-> base + PositionOf(order, id) ]

AllocObjs(o, h, m, d, ids) ==
    LET nm == AllocMap(o, ids) IN
    [ i \in ObjIds |->
        IF \E id \in ids : nm[id] = i
        THEN NewAdapter(h, m, d, CHOOSE id \in ids : nm[id] = i)
        ELSE o[i] ]

(***************************************************************************)
(* DeviceManager::read_config for a file in the new format.                *)
(***************************************************************************)
read_config(file) == file

(* The path at which no file exists. *)
NoFile == [ hosts |-> EmptyMap, mierniki |-> EmptyMap, devices |-> EmptyMap, exists |-> FALSE ]

(* read_config lines 497-535, no file at the path: the parent directory and
   a file holding the default empty configuration are created, and the
   default configuration is returned; the call fails only when the
   directory or the file cannot be created. *)
CreateOutcomes == {"created", "dir_failed", "create_failed"}

read_config_missing(outcome) ==
    IF outcome = "created"
    THEN [ ok |-> TRUE, config |-> NoConfig, file |-> NoConfig, err |-> "" ]
    ELSE [ ok |-> FALSE, config |-> NoConfig, file |-> NoFile, err |-> "ConfigurationError" ]

(* read_config at a path: the file there, or the branch for no file. *)
read_config_at(file, outcome) ==
    IF file = NoFile
    THEN read_config_missing(outcome)
    ELSE [ ok |-> TRUE, config |-> read_config(file), file |-> file, err |-> "" ]

(***************************************************************************)
(* DeviceManager::from_path / from_config.                                 *)
(***************************************************************************)
InitialHosts == [ id \in HostIds |-> IF id = "h1" THEN HostConfig("tcp") ELSE HostConfig("serial") ]

LoadDeviceConfigs ==
    { DeviceConfig(h, m, e) : h \in {"h1", MissingHostId},
                              m \in MiernikIds \cup {MissingMiernikId},
                              e \in BOOLEAN }

LoadDeviceMaps ==
    UNION { [ S -> LoadDeviceConfigs ] : S \in SUBSET DeviceIds }

LoadMierniki ==
    { [ id \in MiernikIds |-> MiernikConfig(IF id = "m1" THEN t1 ELSE t2, ConfiguredCommands) ] :
        t1 \in ProtocolTags, t2 \in { RINCMD, <<"I","N","V","A","L","I","D">> } }

LoadConfigs ==
    { AppConfig(InitialHosts, m, d) : m \in LoadMierniki, d \in LoadDeviceMaps }

FreeObjs == [ i \in ObjIds |-> FreeObj ]

Unconstructed(file) ==
    /\ registry = "none"
    /\ disk = file
    /\ hosts = EmptyMap
    /\ mierniki = EmptyMap
    /\ devices = EmptyMap
    /\ adapters = EmptyMap
    /\ objs = FreeObjs
    /\ readers = {}
    /\ writer = NoTask
    /\ tasks = [ t \in Tasks |-> IdleTask ]

from_path ==
    /\ registry = "none"
    /\ \E outcome \in CreateOutcomes :
         LET read == read_config_at(disk, outcome)
             config == read.config
             built == build_adapters(config.hosts, config.mierniki, config.devices)
         IN /\ disk' = read.file
            /\ IF ~read.ok
               THEN /\ registry' = read.err
                    /\ UNCHANGED << hosts, mierniki, devices, adapters, objs >>
               ELSE IF built.ok
               THEN /\ registry' = "ok"
                    /\ hosts' = config.hosts
                    /\ mierniki' = config.mierniki
                    /\ devices' = config.devices
                    /\ adapters' = AllocMap(objs, built.ids)
                    /\ objs' = AllocObjs(objs, config.hosts, config.mierniki, config.devices, built.ids)
               ELSE /\ registry' = built.err
                    /\ UNCHANGED << hosts, mierniki, devices, adapters, objs >>
    /\ UNCHANGED << readers, writer, tasks >>

InitLoad == \E file \in LoadConfigs : Unconstructed(file)

NextLoad == from_path

SpecLoad == InitLoad /\ [][NextLoad]_vars

(* Construction from any path: one of the files above, or no file. *)
InitPath == \E file \in LoadConfigs \cup {NoFile} : Unconstructed(file)

SpecPath == InitPath /\ [][NextLoad]_vars

(***************************************************************************)
(* The running registry.                                                   *)
(***************************************************************************)
InitialMierniki ==
    [ id \in MiernikIds |->
        IF id = "m1" THEN MiernikConfig(RINCMD, ConfiguredCommands)
        ELSE MiernikConfig(<<"I","N","V","A","L","I","D">>, ConfiguredCommands) ]

InitialDevices ==
    [ id \in DeviceIds |->
        IF id = "d1" THEN DeviceConfig("h1", "m1", TRUE) ELSE DeviceConfig("h2", "m1", TRUE) ]

InitialConfig == AppConfig(InitialHosts, InitialMierniki, InitialDevices)

(* Configurations a save_config request may carry. *)
SaveConfigs ==
    { DeviceConfig("h1", "m1", TRUE),
      DeviceConfig("h1", "m1", FALSE),
      DeviceConfig(MissingHostId, "m1", TRUE),
      DeviceConfig("h1", "m2", TRUE) }

ConnIds == 1..MaxConns

Active(tk) == tk.pc \notin {"idle", "done"}

(* Physical connections that are open: held in a slot or owned by an exchange. *)
OpenConns(o, tks) ==
    ({ o[i].slot : i \in ObjIds } \cup { tks[t].conn : t \in Tasks }) \ {NoConn}

(* An adapter object lives while the map, a call or a map under construction
   refers to it; dropping the last Arc drops its stream. *)
Referenced(i, amap, tks) ==
    \/ \E id \in DOMAIN amap : amap[id] = i
    \/ \E t \in Tasks : Active(tks[t]) /\ tks[t].obj = i
    \/ \E t \in Tasks : Active(tks[t]) /\ \E id \in DOMAIN tks[t].newmap : tks[t].newmap[id] = i

Dropped == [ FreeObj EXCEPT !.dev = "dropped" ]

Collect(o, amap, tks) ==
    [ i \in ObjIds |->
        IF o[i].dev # "" /\ ~Referenced(i, amap, tks) /\ o[i].mutex = NoTask
        THEN Dropped
        ELSE o[i] ]

(* The record of a call that has returned: what it was, what it returned. *)
Finished(tk, result, err) ==
    [ IdleTask EXCEPT !.op = tk.op, !.pc = "done", !.dev = tk.dev, !.io = tk.io,
                      !.log = tk.log, !.todo = tk.todo,
                      !.snap = tk.snap, !.pre = tk.pre, !.preAdapters = tk.preAdapters,
                      !.result = result, !.err = err ]

(* Leave the call: the task's locals are dropped. *)
Finish(t, result, err) ==
    LET tks == [ tasks EXCEPT ![t] = Finished(tasks[t], result, err) ] IN
    /\ tasks' = tks
    /\ objs' = Collect(objs, adapters, tks)

FinishWith(t, result, err, o) ==
    LET tks == [ tasks EXCEPT ![t] = Finished(tasks[t], result, err) ] IN
    /\ tasks' = tks
    /\ objs' = Collect(o, adapters, tks)

(* Leave the call after the response was handed to the parser
   (Device::execute_command lines 98-111). *)
FinishParsed(t, result, err, o) ==
    LET tk == [ tasks[t] EXCEPT !.log = Append(@, "parse") ]
        tks == [ tasks EXCEPT ![t] = Finished(tk, result, err) ]
    IN /\ tasks' = tks
       /\ objs' = Collect(o, adapters, tks)

Goto(t, pc) == tasks' = [ tasks EXCEPT ![t].pc = pc ]

(* Call number t is made once the calls before it have been made. *)
CanStart(t) ==
    /\ registry = "ok"
    /\ tasks[t].pc = "idle"
    /\ \A u \in Tasks : u < t => tasks[u].pc # "idle"

(***************************************************************************)
(* The error conversions on the way from the transport to the caller.      *)
(***************************************************************************)
(* CommandExecutor::send_tcp lines 58-63: any error of connect_tcp becomes
   HostError::ConnectionError. *)
send_tcp_connect_error(e) == "ConnectionError"

(* Device::execute_command lines 92-96: any HostError becomes
   MiernikError::HostError. *)
MiernikError_from_host(e) == "HostError"

(* DeviceManager::execute_command lines 273-280: any MiernikError becomes
   BridgeError::ProtocolError. *)
BridgeError_from_adapter(e) == "ProtocolError"

(* What the caller of DeviceManager::execute_command gets for a HostError. *)
HostFailure(e) == BridgeError_from_adapter(MiernikError_from_host(e))

(***************************************************************************)
(* DeviceManager::execute_command: the device check (lines 233-245).       *)
(***************************************************************************)
(* execute_command without the enabled check of lines 235-241. *)
execute_command_skips_enabled_check(t, id, cmd) ==
    /\ CanStart(t)
    /\ LET tk == [ IdleTask EXCEPT !.op = "exec", !.dev = id, !.cmd = cmd ] IN
       IF id \in DOMAIN devices
       THEN tasks' = [ tasks EXCEPT ![t] = [ tk EXCEPT !.pc = "get_adapter" ] ]
       ELSE tasks' = [ tasks EXCEPT ![t] = Finished(tk, "DeviceNotFound", "") ]
    /\ UNCHANGED << registry, disk, hosts, mierniki, devices, adapters, objs, readers, writer >>

(* execute_command that leaves an unknown id to the adapter look-up. *)
execute_command_skips_device_check(t, id, cmd) ==
    /\ CanStart(t)
    /\ LET tk == [ IdleTask EXCEPT !.op = "exec", !.dev = id, !.cmd = cmd ] IN
       IF id \in DOMAIN devices /\ ~devices[id].enabled
       THEN tasks' = [ tasks EXCEPT ![t] = Finished(tk, "InvalidCommand", "") ]
       ELSE tasks' = [ tasks EXCEPT ![t] = [ tk EXCEPT !.pc = "get_adapter" ] ]
    /\ UNCHANGED << registry, disk, hosts, mierniki, devices, adapters, objs, readers, writer >>

execute_command(t, id, cmd) ==
    /\ CanStart(t)
    /\ LET tk == [ IdleTask EXCEPT !.op = "exec", !.dev = id, !.cmd = cmd ] IN
       IF id \in DOMAIN devices
       THEN IF ~devices[id].enabled
            THEN tasks' = [ tasks EXCEPT ![t] = Finished(tk, "InvalidCommand", "") ]
            ELSE tasks' = [ tasks EXCEPT ![t] = [ tk EXCEPT !.pc = "get_adapter" ] ]
       ELSE tasks' = [ tasks EXCEPT ![t] = Finished(tk, "DeviceNotFound", "") ]
    /\ UNCHANGED << registry, disk, hosts, mierniki, devices, adapters, objs, readers, writer >>

(***************************************************************************)
(* execute_command lines 247-253 (adapter clone under the read guard) and  *)
(* Device::execute_command lines 84-90 (command look-up).                  *)
(***************************************************************************)
get_adapter(t) ==
    /\ tasks[t].op = "exec" /\ tasks[t].pc = "get_adapter"
    /\ writer = NoTask
    /\ LET id == tasks[t].dev IN
       IF id \notin DOMAIN adapters
       THEN Finish(t, "DeviceNotFound", "")
       ELSE LET o == adapters[id] IN
            IF to_lowercase(tasks[t].cmd) \notin objs[o].cmds
            THEN Finish(t, BridgeError_from_adapter("InvalidCommand"), "InvalidCommand")
            ELSE /\ tasks' = [ tasks EXCEPT ![t].obj = o,
                                 ![t].pc = IF objs[o].kind = "tcp" THEN "tcp_clear" ELSE "serial_lock" ]
                 /\ UNCHANGED objs
    /\ UNCHANGED << registry, disk, hosts, mierniki, devices, adapters, readers, writer >>

(***************************************************************************)
(* CommandExecutor::send_tcp.                                              *)
(***************************************************************************)
(* lines 53-56: clear any existing connection *)
send_tcp_clear(t) ==
    /\ tasks[t].pc = "tcp_clear"
    /\ objs' = [ objs EXCEPT ![tasks[t].obj].slot = NoConn ]
    /\ tasks' = [ tasks EXCEPT ![t].pc = "tcp_check", ![t].io = 1 ]
    /\ UNCHANGED << registry, disk, hosts, mierniki, devices, adapters, readers, writer >>

(* After a connect: send_tcp goes on to take the handle, the fan-out of
   connect_all_devices goes on to the next adapter. *)
AfterConnect(tk) == IF tk.op = "exec" THEN "tcp_take" ELSE "ca_loop"

(* connect_tcp without the early return of lines 144-150. *)
connect_tcp_check_always_connects(t) ==
    /\ tasks[t].pc = "tcp_check"
    /\ tasks' = [ tasks EXCEPT ![t].pc = "tcp_connecting", ![t].log = Append(@, "connect") ]
    /\ UNCHANGED << registry, disk, hosts, mierniki, devices, adapters, objs, readers, writer >>

(* Connection::connect_tcp lines 144-150: already connected? *)
connect_tcp_check(t) ==
    /\ tasks[t].pc = "tcp_check"
    /\ tasks' = [ tasks EXCEPT ![t] =
                    IF objs[tasks[t].obj].slot # NoConn
                    THEN [ @ EXCEPT !.pc = AfterConnect(tasks[t]), !.log = Append(@, "held") ]
                    ELSE [ @ EXCEPT !.pc = "tcp_connecting", !.log = Append(@, "connect") ] ]
    /\ UNCHANGED << registry, disk, hosts, mierniki, devices, adapters, objs, readers, writer >>


ConnectOutcomes == {"ok", "timeout", "refused"}

(* lines 158-170: the HostError of a failed attempt *)
ConnectError(outcome) == IF outcome = "timeout" THEN "Timeout" ELSE "ConnectionError"

(* send_tcp that tries connect_tcp again after a failed attempt. *)
connect_tcp_done_retries(t, outcome) ==
    /\ tasks[t].pc = "tcp_connecting"
    /\ IF outcome = "ok"
       THEN /\ \E c \in ConnIds :
                 /\ c \notin OpenConns(objs, tasks)
                 /\ \A c2 \in ConnIds : c2 < c => c2 \in OpenConns(objs, tasks)
                 /\ objs' = [ objs EXCEPT ![tasks[t].obj].slot = c ]
            /\ tasks' = [ tasks EXCEPT ![t].pc = AfterConnect(tasks[t]) ]
       ELSE /\ tasks' = [ tasks EXCEPT ![t].pc = IF tasks[t].op = "exec" THEN "tcp_check" ELSE "ca_loop" ]
            /\ UNCHANGED objs
    /\ UNCHANGED << registry, disk, hosts, mierniki, devices, adapters, readers, writer >>

(* connect_all_devices that gives up at the first adapter that fails. *)
connect_tcp_done_aborts_fan_out(t, outcome) ==
    /\ tasks[t].pc = "tcp_connecting"
    /\ IF outcome = "ok"
       THEN /\ \E c \in ConnIds :
                 /\ c \notin OpenConns(objs, tasks)
                 /\ \A c2 \in ConnIds : c2 < c => c2 \in OpenConns(objs, tasks)
                 /\ objs' = [ objs EXCEPT ![tasks[t].obj].slot = c ]
            /\ tasks' = [ tasks EXCEPT ![t].pc = AfterConnect(tasks[t]) ]
            /\ UNCHANGED readers
       ELSE IF tasks[t].op = "exec"
            THEN /\ Finish(t, HostFailure(send_tcp_connect_error(ConnectError(outcome))),
                           ConnectError(outcome))
                 /\ UNCHANGED readers
            ELSE /\ Finish(t, ConnectError(outcome), "")
                 /\ readers' = readers \ {t}
    /\ UNCHANGED << registry, disk, hosts, mierniki, devices, adapters, writer >>

(* Connection::connect_tcp lines 155-185: the attempt completes. *)
connect_tcp_done(t, outcome) ==
    /\ tasks[t].pc = "tcp_connecting"
    /\ IF outcome = "ok"
       THEN /\ \E c \in ConnIds :
                 /\ c \notin OpenConns(objs, tasks)
                 /\ \A c2 \in ConnIds : c2 < c => c2 \in OpenConns(objs, tasks)
                 /\ objs' = [ objs EXCEPT ![tasks[t].obj].slot = c ]
            /\ tasks' = [ tasks EXCEPT ![t].pc = AfterConnect(tasks[t]) ]
       ELSE IF tasks[t].op = "exec"
            THEN Finish(t, HostFailure(send_tcp_connect_error(ConnectError(outcome))),
                        ConnectError(outcome))
            ELSE /\ tasks' = [ tasks EXCEPT ![t].pc = "ca_loop" ]
                 /\ UNCHANGED objs
    /\ UNCHANGED << registry, disk, hosts, mierniki, devices, adapters, readers, writer >>

(* send_tcp that copies the handle and leaves it in the slot. *)
send_tcp_take_leaves_handle(t) ==
    /\ tasks[t].pc = "tcp_take"
    /\ LET o == tasks[t].obj IN
       IF objs[o].slot = NoConn
       THEN Finish(t, HostFailure("ConnectionError"), "ConnectionError")
       ELSE /\ tasks' = [ tasks EXCEPT ![t].conn = objs[o].slot, ![t].pc = "tcp_writing",
                                       ![t].log = Append(@, "write") ]
            /\ UNCHANGED objs
    /\ UNCHANGED << registry, disk, hosts, mierniki, devices, adapters, readers, writer >>

(* lines 70-77: take the handle out of the slot *)
send_tcp_take(t) ==
    /\ tasks[t].pc = "tcp_take"
    /\ LET o == tasks[t].obj IN
       IF objs[o].slot = NoConn
       THEN Finish(t, HostFailure("ConnectionError"), "ConnectionError")
       ELSE /\ tasks' = [ tasks EXCEPT ![t].conn = objs[o].slot, ![t].pc = "tcp_writing",
                                       ![t].log = Append(@, "write") ]
            /\ objs' = [ objs EXCEPT ![o].slot = NoConn ]
    /\ UNCHANGED << registry, disk, hosts, mierniki, devices, adapters, readers, writer >>

WriteOutcomes == {"ok", "io", "timeout"}

(* lines 82-120: the write completes *)
send_tcp_write_done(t, outcome) ==
    /\ tasks[t].pc = "tcp_writing"
    /\ LET o == tasks[t].obj IN
       CASE outcome = "ok" ->
              /\ tasks' = [ tasks EXCEPT ![t].pc = "tcp_reading" ]
              /\ UNCHANGED objs
         [] outcome = "io" ->
              FinishWith(t, HostFailure("IoError"), "IoError", [ objs EXCEPT ![o].slot = NoConn ])
         [] OTHER ->
              FinishWith(t, HostFailure("Timeout"), "Timeout", [ objs EXCEPT ![o].slot = tasks[t].conn ])
    /\ UNCHANGED << registry, disk, hosts, mierniki, devices, adapters, readers, writer >>

ReadOutcomes == {"ok", "unparsable", "io", "timeout"}

(* A read whose timeout drops the stream as an I/O error does. *)
send_tcp_read_done_timeout_drops_handle(t, outcome) ==
    /\ tasks[t].pc = "tcp_reading"
    /\ LET o == tasks[t].obj IN
       CASE outcome = "ok" ->
              FinishParsed(t, "Ok", "", [ objs EXCEPT ![o].slot = tasks[t].conn ])
         [] outcome = "unparsable" ->
              FinishParsed(t, BridgeError_from_adapter("ProtocolError"), "ProtocolError",
                           [ objs EXCEPT ![o].slot = tasks[t].conn ])
         [] outcome = "io" ->
              FinishWith(t, HostFailure("IoError"), "IoError", [ objs EXCEPT ![o].slot = NoConn ])
         [] OTHER ->
              FinishWith(t, HostFailure("Timeout"), "Timeout", [ objs EXCEPT ![o].slot = NoConn ])
    /\ UNCHANGED << registry, disk, hosts, mierniki, devices, adapters, readers, writer >>

(* lines 123-163: the read completes; Device::execute_command lines 98-111
   parse the response. *)
send_tcp_read_done(t, outcome) ==
    /\ tasks[t].pc = "tcp_reading"
    /\ LET o == tasks[t].obj IN
       CASE outcome = "ok" ->
              FinishParsed(t, "Ok", "", [ objs EXCEPT ![o].slot = tasks[t].conn ])
         [] outcome = "unparsable" ->
              FinishParsed(t, BridgeError_from_adapter("ProtocolError"), "ProtocolError",
                           [ objs EXCEPT ![o].slot = tasks[t].conn ])
         [] outcome = "io" ->
              FinishWith(t, HostFailure("IoError"), "IoError", [ objs EXCEPT ![o].slot = NoConn ])
         [] OTHER ->
              FinishWith(t, HostFailure("Timeout"), "Timeout", [ objs EXCEPT ![o].slot = tasks[t].conn ])
    /\ UNCHANGED << registry, disk, hosts, mierniki, devices, adapters, readers, writer >>

(***************************************************************************)
(* CommandExecutor::send_serial: the blocking task locks the port mutex    *)
(* and keeps it for the whole exchange.                                    *)
(***************************************************************************)
send_serial_lock(t) ==
    /\ tasks[t].pc = "serial_lock"
    /\ LET o == tasks[t].obj IN
       /\ objs[o].mutex = NoTask
       /\ IF objs[o].slot = NoConn
          THEN Finish(t, HostFailure("ConnectionError"), "ConnectionError")
          ELSE /\ objs' = [ objs EXCEPT ![o].mutex = t ]
               /\ tasks' = [ tasks EXCEPT ![t].pc = "serial_io", ![t].io = 1,
                                          ![t].log = Append(@, "write") ]
    /\ UNCHANGED << registry, disk, hosts, mierniki, devices, adapters, readers, writer >>

SerialOutcomes == {"ok", "unparsable", "io", "timeout"}

send_serial_done(t, outcome) ==
    /\ tasks[t].pc = "serial_io"
    /\ LET o == tasks[t].obj
           released == [ objs EXCEPT ![o].mutex = NoTask ]
       IN CASE outcome = "ok" -> FinishParsed(t, "Ok", "", released)
            [] outcome = "unparsable" ->
                 FinishParsed(t, BridgeError_from_adapter("ProtocolError"), "ProtocolError", released)
            [] outcome = "io" -> FinishWith(t, HostFailure("IoError"), "IoError", released)
            [] OTHER -> FinishWith(t, HostFailure("Timeout"), "Timeout", released)
    /\ UNCHANGED << registry, disk, hosts, mierniki, devices, adapters, readers, writer >>

(***************************************************************************)
(* DeviceManager::connect_all_devices: the read guard of the adapter map   *)
(* is taken at line 285 and lives until the function returns, across every *)
(* adapter.connect().await.  rebuild_adapters ends with the same call.     *)
(***************************************************************************)
(* line 285, called from outside: the call starts by taking the read guard *)
connect_all_devices(t) ==
    /\ CanStart(t)
    /\ writer = NoTask
    /\ readers' = readers \cup {t}
    /\ tasks' = [ tasks EXCEPT ![t] = [ IdleTask EXCEPT !.op = "connect_all", !.pc = "ca_loop",
                                                         !.todo = DOMAIN adapters ] ]
    /\ UNCHANGED << registry, disk, hosts, mierniki, devices, adapters, objs, writer >>

(* line 285, called at line 367 by rebuild_adapters *)
connect_all_lock(t) ==
    /\ tasks[t].pc = "ca_lock"
    /\ writer = NoTask
    /\ readers' = readers \cup {t}
    /\ tasks' = [ tasks EXCEPT ![t].pc = "ca_loop", ![t].todo = DOMAIN adapters ]
    /\ UNCHANGED << registry, disk, hosts, mierniki, devices, adapters, objs, writer >>

(* The loop is over: the guard is dropped and the call returns. *)
connect_all_end(t) ==
    /\ tasks[t].pc = "ca_loop"
    /\ tasks[t].todo = {}
    /\ readers' = readers \ {t}
    /\ Finish(t, "Ok", "")
    /\ UNCHANGED << registry, disk, hosts, mierniki, devices, adapters, writer >>

(* Next adapter of the iteration: Device::connect, lines 55-70.  For a
   serial adapter connect_serial first asks is_connected(), which locks the
   port mutex. *)
connect_all_next(t) ==
    /\ tasks[t].pc = "ca_loop"
    /\ \E id \in tasks[t].todo :
         LET o == adapters[id] IN
         /\ objs[o].kind = "serial" => objs[o].mutex = NoTask
         /\ tasks' = [ tasks EXCEPT ![t].todo = @ \ {id}, ![t].obj = o,
                         ![t].pc = IF objs[o].kind = "tcp" THEN "tcp_check"
                                   ELSE IF objs[o].slot # NoConn THEN "ca_loop"
                                   ELSE "serial_opening",
                         ![t].log = IF objs[o].kind = "tcp" THEN @
                                    ELSE IF objs[o].slot # NoConn THEN Append(@, "held")
                                    ELSE Append(@, "connect") ]
    /\ UNCHANGED << registry, disk, hosts, mierniki, devices, adapters, objs, readers, writer >>

OpenOutcomes == {"ok", "failed"}

(* Connection::connect_serial lines 221-288: the blocking task opens the port
   and stores it under the mutex. *)
connect_serial_done(t, outcome) ==
    /\ tasks[t].pc = "serial_opening"
    /\ IF outcome = "ok"
       THEN /\ objs[tasks[t].obj].mutex = NoTask
            /\ \E c \in ConnIds :
                 /\ c \notin OpenConns(objs, tasks)
                 /\ \A c2 \in ConnIds : c2 < c => c2 \in OpenConns(objs, tasks)
                 /\ objs' = [ objs EXCEPT ![tasks[t].obj].slot = c ]
       ELSE UNCHANGED objs
    /\ tasks' = [ tasks EXCEPT ![t].pc = "ca_loop" ]
    /\ UNCHANGED << registry, disk, hosts, mierniki, devices, adapters, readers, writer >>

(***************************************************************************)
(* DeviceManager::disconnect_all_devices, and the disconnect loop of       *)
(* rebuild_adapters (lines 352-359): the read guard is held across every   *)
(* adapter.disconnect().await.                                             *)
(***************************************************************************)
(* line 295: the call starts by taking the read guard *)
disconnect_all_devices(t) ==
    /\ CanStart(t)
    /\ writer = NoTask
    /\ readers' = readers \cup {t}
    /\ tasks' = [ tasks EXCEPT ![t] = [ IdleTask EXCEPT !.op = "disconnect_all", !.pc = "da_loop",
                                                         !.todo = DOMAIN adapters ] ]
    /\ UNCHANGED << registry, disk, hosts, mierniki, devices, adapters, objs, writer >>

(* line 353: the read guard of the disconnect loop of rebuild_adapters *)
disconnect_lock(t) ==
    /\ tasks[t].pc = "da_lock"
    /\ writer = NoTask
    /\ readers' = readers \cup {t}
    /\ tasks' = [ tasks EXCEPT ![t].pc = "da_loop", ![t].todo = DOMAIN adapters ]
    /\ UNCHANGED << registry, disk, hosts, mierniki, devices, adapters, objs, writer >>

(* disconnect that drops the TCP stream only. *)
disconnect_next_keeps_serial_port(t) ==
    /\ tasks[t].pc = "da_loop"
    /\ \E id \in tasks[t].todo :
         LET o == adapters[id] IN
         /\ objs[o].kind = "serial" => objs[o].mutex = NoTask
         /\ objs' = [ objs EXCEPT ![o].slot = IF objs[o].kind = "tcp" THEN NoConn ELSE @ ]
         /\ tasks' = [ tasks EXCEPT ![t].todo = @ \ {id},
                         ![t].disconnected = @ \cup {o},
                         ![t].log = Append(@, IF objs[o].slot # NoConn THEN "closed" ELSE "noop") ]
    /\ UNCHANGED << registry, disk, hosts, mierniki, devices, adapters, readers, writer >>

(* Connection::disconnect lines 299-312 on the next adapter. *)
disconnect_next(t) ==
    /\ tasks[t].pc = "da_loop"
    /\ \E id \in tasks[t].todo :
         LET o == adapters[id] IN
         /\ objs[o].kind = "serial" => objs[o].mutex = NoTask
         /\ objs' = [ objs EXCEPT ![o].slot = NoConn ]
         /\ tasks' = [ tasks EXCEPT ![t].todo = @ \ {id},
                         ![t].disconnected = @ \cup {o},
                         ![t].log = Append(@, IF objs[o].slot # NoConn THEN "closed" ELSE "noop") ]
    /\ UNCHANGED << registry, disk, hosts, mierniki, devices, adapters, readers, writer >>

disconnect_end(t) ==
    /\ tasks[t].pc = "da_loop"
    /\ tasks[t].todo = {}
    /\ readers' = readers \ {t}
    /\ IF tasks[t].op = "reload"
       THEN /\ tasks' = [ tasks EXCEPT ![t].pc = "rl_wlock" ]
            /\ UNCHANGED objs
       ELSE Finish(t, "Ok", "")
    /\ UNCHANGED << registry, disk, hosts, mierniki, devices, adapters, writer >>

(***************************************************************************)
(* DeviceManager::save_config / delete_config / write_config.              *)
(***************************************************************************)
save_config(t, id, config) ==
    /\ CanStart(t)
    /\ devices' = Put(devices, id, config)
    /\ tasks' = [ tasks EXCEPT ![t] = [ IdleTask EXCEPT !.op = "save", !.dev = id, !.pc = "write_config" ] ]
    /\ UNCHANGED << registry, disk, hosts, mierniki, adapters, objs, readers, writer >>

delete_config(t, id) ==
    /\ CanStart(t)
    /\ LET tk == [ IdleTask EXCEPT !.op = "delete", !.dev = id ] IN
       IF id \in DOMAIN devices
       THEN /\ devices' = Remove(devices, id)
            /\ tasks' = [ tasks EXCEPT ![t] = [ tk EXCEPT !.pc = "write_config" ] ]
       ELSE /\ tasks' = [ tasks EXCEPT ![t] = Finished(tk, "DeviceNotFound", "") ]
            /\ UNCHANGED devices
    /\ UNCHANGED << registry, disk, hosts, mierniki, adapters, objs, readers, writer >>

PersistOutcomes == {"ok", "failed"}

(* The file just after File::create: empty. *)
Truncated ==
    [ hosts |-> EmptyMap, mierniki |-> EmptyMap, devices |-> EmptyMap, unparsable |-> "empty" ]

(* The file after one serialization was written over another, longer one:
   the tail of the longer one follows the shorter one. *)
Garbled ==
    [ hosts |-> EmptyMap, mierniki |-> EmptyMap, devices |-> EmptyMap, unparsable |-> "garbled" ]

(* serde_json::from_str::<AppConfig> succeeds on the file. *)
Parsable(file) == file \notin {Truncated, Garbled}

(* write_config lines 613-619: File::create truncates the file. *)
write_config(t, outcome) ==
    /\ tasks[t].pc = "write_config"
    /\ IF outcome = "ok"
       THEN /\ disk' = Truncated
            /\ tasks' = [ tasks EXCEPT ![t].pc = "wc_snapshot" ]
            /\ UNCHANGED objs
       ELSE /\ UNCHANGED disk
            /\ Finish(t, "ConfigurationError", "")
    /\ UNCHANGED << registry, hosts, mierniki, devices, adapters, readers, writer >>

(* lines 621-625: the three maps are cloned under their read guards. *)
write_config_snapshot(t) ==
    /\ tasks[t].pc = "wc_snapshot"
    /\ tasks' = [ tasks EXCEPT ![t].snap = AppConfig(hosts, mierniki, devices),
                               ![t].pc = "wc_serialize" ]
    /\ UNCHANGED << registry, disk, hosts, mierniki, devices, adapters, objs, readers, writer >>

(* lines 626-627: the snapshot is written from the start of the file through
   this call's own handle.  Over a file another call has written since this
   call truncated it, the result is this snapshot when it is at least as long
   and a garbled file when it is shorter. *)
write_config_serialize(t, shorter) ==
    /\ tasks[t].pc = "wc_serialize"
    /\ disk' = IF disk = Truncated \/ disk = tasks[t].snap \/ ~shorter
               THEN tasks[t].snap
               ELSE Garbled
    /\ Finish(t, "Ok", "")
    /\ UNCHANGED << registry, hosts, mierniki, devices, adapters, readers, writer >>

(***************************************************************************)
(* The configuration file is rewritten from outside the registry, as       *)
(* tests/device_test.rs test_reload_config does before it calls            *)
(* reload_config.                                                          *)
(***************************************************************************)
EditedValid ==
    AppConfig(InitialHosts, InitialMierniki,
              [ id \in {"d1"} |-> DeviceConfig("h1", "m1", TRUE) ])

EditedInvalid ==
    AppConfig(InitialHosts, InitialMierniki,
              [ id \in DeviceIds |->
                  IF id = "d1" THEN DeviceConfig("h1", "m2", TRUE) ELSE InitialDevices[id] ])

FileEdits == { EditedValid, EditedInvalid }

edit_file(t, file) ==
    /\ CanStart(t)
    /\ disk' = file
    /\ tasks' = [ tasks EXCEPT ![t] = Finished([ IdleTask EXCEPT !.op = "edit" ], "Ok", "") ]
    /\ UNCHANGED << registry, hosts, mierniki, devices, adapters, objs, readers, writer >>

(***************************************************************************)
(* DeviceManager::reload_config and rebuild_adapters.                      *)
(***************************************************************************)
(* line 329: read the file *)
reload_config(t) ==
    /\ CanStart(t)
    /\ LET tk == [ IdleTask EXCEPT !.op = "reload",
                                   !.pre = AppConfig(hosts, mierniki, devices),
                                   !.preAdapters = adapters ]
       IN tasks' = [ tasks EXCEPT ![t] =
                       IF Parsable(disk)
                       THEN [ tk EXCEPT !.pc = "rl_maps", !.snap = read_config(disk) ]
                       ELSE Finished(tk, "ConfigurationError", "") ]
    /\ UNCHANGED << registry, disk, hosts, mierniki, devices, adapters, objs, readers, writer >>

(* lines 330-341: the three maps are overwritten, before anything is built *)
reload_maps(t) ==
    /\ tasks[t].pc = "rl_maps"
    /\ hosts' = tasks[t].snap.hosts
    /\ mierniki' = tasks[t].snap.mierniki
    /\ devices' = tasks[t].snap.devices
    /\ tasks' = [ tasks EXCEPT ![t].pc = "rl_build" ]
    /\ UNCHANGED << registry, disk, adapters, objs, readers, writer >>

(* rebuild_adapters lines 346-349: snapshot the maps and build the
   replacement adapters; a configuration error returns from reload_config
   with the maps already replaced. *)
rebuild_adapters(t) ==
    /\ tasks[t].pc = "rl_build"
    /\ \E built \in { build_adapters(hosts, mierniki, devices) } :
       IF built.ok
       THEN /\ Cardinality(Allocated(objs)) + Cardinality(built.ids) <= MaxObjs
            /\ \E new_objs \in { AllocObjs(objs, hosts, mierniki, devices, built.ids) } :
                 objs' = new_objs
            /\ \E new_adapters \in { AllocMap(objs, built.ids) } :
                 tasks' = [ tasks EXCEPT ![t].newmap = new_adapters, ![t].pc = "da_lock" ]
       ELSE Finish(t, built.err, "")
    /\ UNCHANGED << registry, disk, hosts, mierniki, devices, adapters, readers, writer >>

(* line 363: adapters.write() sets the writer bit, then waits for the
   readers to leave. *)
rebuild_write_lock(t) ==
    /\ tasks[t].pc = "rl_wlock"
    /\ writer = NoTask
    /\ writer' = t
    /\ Goto(t, "rl_install")
    /\ UNCHANGED << registry, disk, hosts, mierniki, devices, adapters, objs, readers >>

(* lines 363-365: replace the map; the old map is dropped. *)
rebuild_install(t) ==
    /\ tasks[t].pc = "rl_install"
    /\ writer = t
    /\ readers = {}
    /\ writer' = NoTask
    /\ adapters' = tasks[t].newmap
    /\ LET tks == [ tasks EXCEPT ![t].pc = "ca_lock", ![t].newmap = EmptyMap ] IN
       /\ tasks' = tks
       /\ objs' = Collect(objs, tasks[t].newmap, tks)
    /\ UNCHANGED << registry, disk, hosts, mierniki, devices, readers >>

(***************************************************************************)
(* The registry in operation.                                              *)
(***************************************************************************)
Init ==
    /\ registry = "ok"
    /\ disk = InitialConfig
    /\ hosts = InitialConfig.hosts
    /\ mierniki = InitialConfig.mierniki
    /\ devices = InitialConfig.devices
    /\ adapters = AllocMap(FreeObjs, build_adapters(hosts, mierniki, devices).ids)
    /\ objs = AllocObjs(FreeObjs, hosts, mierniki, devices, build_adapters(hosts, mierniki, devices).ids)
    /\ readers = {}
    /\ writer = NoTask
    /\ tasks = [ t \in Tasks |-> IdleTask ]

(* One step of call t. *)
TaskStep(t) ==
    \/ \E id \in RequestIds, cmd \in Commands : execute_command(t, id, cmd)
    \/ get_adapter(t)
    \/ send_tcp_clear(t)
    \/ connect_tcp_check(t)
    \/ \E outcome \in ConnectOutcomes : connect_tcp_done(t, outcome)
    \/ send_tcp_take(t)
    \/ \E outcome \in WriteOutcomes : send_tcp_write_done(t, outcome)
    \/ \E outcome \in ReadOutcomes : send_tcp_read_done(t, outcome)
    \/ send_serial_lock(t)
    \/ \E outcome \in SerialOutcomes : send_serial_done(t, outcome)
    \/ connect_all_devices(t)
    \/ connect_all_lock(t)
    \/ connect_all_next(t)
    \/ \E outcome \in OpenOutcomes : connect_serial_done(t, outcome)
    \/ connect_all_end(t)
    \/ disconnect_all_devices(t)
    \/ disconnect_lock(t)
    \/ disconnect_next(t)
    \/ disconnect_end(t)
    \/ \E id \in RequestIds, config \in SaveConfigs : save_config(t, id, config)
    \/ \E id \in RequestIds : delete_config(t, id)
    \/ \E outcome \in PersistOutcomes : write_config(t, outcome)
    \/ write_config_snapshot(t)
    \/ \E shorter \in BOOLEAN : write_config_serialize(t, shorter)
    \/ \E file \in FileEdits : edit_file(t, file)
    \/ reload_config(t)
    \/ reload_maps(t)
    \/ rebuild_adapters(t)
    \/ rebuild_write_lock(t)
    \/ rebuild_install(t)

Next == \E t \in Tasks : TaskStep(t)

Spec == Init /\ [][Next]_vars

(***************************************************************************)
(* Observations used by the properties.                                    *)
(***************************************************************************)
(* DeviceManager::get_devices: the ids of the enabled devices. *)
get_devices == { id \in DOMAIN devices : devices[id].enabled }

EnabledIds(config) == { id \in DOMAIN config.devices : config.devices[id].enabled }

(* Adapter object i holds an open physical connection: in its slot, or taken
   out of the slot by an exchange in progress. *)
HoldsOpen(i) ==
    \/ objs[i].slot # NoConn
    \/ \E u \in Tasks : tasks[u].obj = i /\ tasks[u].conn # NoConn

(* Call t starts in this step as an execute_command for a device id. *)
ExecStarts(t) == tasks[t].pc = "idle" /\ tasks'[t].op = "exec"

(* Call t returns in the step that starts it, with this result, and no
   adapter object was touched. *)
ReturnsAtOnce(t, result) ==
    /\ tasks'[t].pc = "done"
    /\ tasks'[t].result = result
    /\ tasks'[t].io = 0
    /\ objs' = objs

(* C1: execute_command for a device that is in the device map with
   enabled = false returns InvalidCommand, and the call performs no connect,
   write or read on any adapter. *)
C1_DisabledDeviceRejected ==
    [][ \A t \in Tasks :
          ( /\ ExecStarts(t)
            /\ tasks'[t].dev \in DOMAIN devices
            /\ ~devices[tasks'[t].dev].enabled )
          => ReturnsAtOnce(t, "InvalidCommand") ]_vars

(* C1 happens: a device disabled by save_config without a reload still has
   its adapter in the map, and a command for it was answered InvalidCommand. *)
C1_Witness ==
    \E t \in Tasks :
        /\ tasks[t].op = "exec" /\ tasks[t].pc = "done"
        /\ tasks[t].result = "InvalidCommand" /\ tasks[t].io = 0
        /\ tasks[t].dev \in DOMAIN devices /\ ~devices[tasks[t].dev].enabled
        /\ tasks[t].dev \in DOMAIN adapters

(* C2: execute_command for an id that is not in the device map returns
   DeviceNotFound before any connect, write or read on any adapter. *)
C2_UnknownDeviceNotFound ==
    [][ \A t \in Tasks :
          ( ExecStarts(t) /\ tasks'[t].dev \notin DOMAIN devices )
          => ReturnsAtOnce(t, "DeviceNotFound") ]_vars

(* C2 happens: a device removed by delete_config without a reload still has
   its adapter in the map, and a command for it was answered DeviceNotFound. *)
C2_Witness ==
    \E t \in Tasks :
        /\ tasks[t].op = "exec" /\ tasks[t].pc = "done"
        /\ tasks[t].result = "DeviceNotFound" /\ tasks[t].io = 0
        /\ tasks[t].dev \notin DOMAIN devices
        /\ tasks[t].dev \in DOMAIN adapters

(* C3: every key of the adapter map is a key of the device map whose
   configuration is enabled. *)
C3_AdaptersAreEnabledDevices ==
    \A id \in DOMAIN adapters : id \in DOMAIN devices /\ devices[id].enabled

(* C4: for every device there is at most one adapter object able to do I/O
   (in the map, or held by an execute_command in flight), and at most one
   physical connection attempt in progress. *)
AdapterObjectsFor(id) ==
    { i \in ObjIds :
        /\ objs[i].dev = id
        /\ \/ \E k \in DOMAIN adapters : adapters[k] = i
           \/ \E t \in Tasks : tasks[t].op = "exec" /\ Active(tasks[t]) /\ tasks[t].obj = i }

ConnectAttemptsFor(id) ==
    { t \in Tasks :
        /\ tasks[t].pc \in {"tcp_connecting", "serial_opening"}
        /\ objs[tasks[t].obj].dev = id }

C4_OneAdapterOneAttempt ==
    \A id \in RequestIds :
        /\ Cardinality(AdapterObjectsFor(id)) <= 1
        /\ Cardinality(ConnectAttemptsFor(id)) <= 1

(* C5: once reload_config has returned Ok, get_devices() is the set of
   enabled ids of the configuration it read (no other call changing the
   device map being made), and no adapter that was in the map before the
   call holds an open connection. *)
ReloadReturned(t, result) ==
    tasks[t].op = "reload" /\ tasks[t].pc = "done" /\ tasks[t].result = result

C5_ReloadReplacesAdapters ==
    \A t \in Tasks :
        ReloadReturned(t, "Ok") =>
            /\ (\A u \in Tasks \ {t} : tasks[u].op \notin {"save", "delete", "reload"})
                   => get_devices = EnabledIds(tasks[t].snap)
            /\ \A id \in DOMAIN tasks[t].preAdapters : ~HoldsOpen(tasks[t].preAdapters[id])

(* C6: two distinct adapter objects of one device never both hold an open
   physical connection. *)
C6_OneOpenAdapterPerDevice ==
    \A i, j \in ObjIds :
        (i # j /\ objs[i].dev \in RequestIds /\ objs[i].dev = objs[j].dev)
            => ~(HoldsOpen(i) /\ HoldsOpen(j))

(* C7: when reload_config has returned ConfigurationError, the host,
   miernik, device and adapter maps are what they were before the call. *)
C7_FailedReloadChangesNothing ==
    \A t \in Tasks :
        ReloadReturned(t, "ConfigurationError") =>
            /\ AppConfig(hosts, mierniki, devices) = tasks[t].pre
            /\ adapters = tasks[t].preAdapters

(* The protocol tags of ProtocolTags that name a supported dialect. *)
RecognizedTags ==
    { <<"R","I","N","C","M","D">>,
      <<"r","i","n","s","t","r","u","m">>,
      <<"D","i","n","i","_","A","r","g","e","o">>,
      <<"a","s","c","i","i">> }

(* Device id of the file has a miernik whose protocol tag is not recognized. *)
UnrecognizedTag(file, id) ==
    /\ file.devices[id].miernik_id \in DOMAIN file.mierniki
    /\ file.mierniki[file.devices[id].miernik_id].protocol \notin RecognizedTags

(* Device id of the file can be given an adapter. *)
Buildable(file, id) ==
    /\ file.devices[id].host_id \in DOMAIN file.hosts
    /\ file.devices[id].miernik_id \in DOMAIN file.mierniki
    /\ ~UnrecognizedTag(file, id)

Loaded == registry # "none"

(* C8 as stated: the load fails with ConfigurationError whenever any device
   of the file, enabled or disabled, has an unrecognized protocol tag; it
   succeeds only if the tag of every device is recognized. *)
C8_AnyUnrecognizedTagFailsLoad ==
    Loaded =>
        /\ (\E id \in DOMAIN disk.devices : UnrecognizedTag(disk, id))
               => registry = "ConfigurationError"
        /\ registry = "ok" => \A id \in DOMAIN disk.devices : ~UnrecognizedTag(disk, id)

(* C8 amended: the load fails with ConfigurationError, and builds nothing,
   whenever an enabled device has an unrecognized protocol tag; it succeeds
   exactly when every enabled device has its host, its miernik and a
   recognized tag.  Disabled devices are not validated. *)
C8_EnabledUnrecognizedTagFailsLoad ==
    Loaded =>
        /\ registry \in {"ok", "ConfigurationError"}
        /\ (\E id \in EnabledIds(disk) : UnrecognizedTag(disk, id))
               => registry = "ConfigurationError"
        /\ registry = "ok" <=> \A id \in EnabledIds(disk) : Buildable(disk, id)
        /\ registry = "ok" => DOMAIN adapters = EnabledIds(disk) /\ devices = disk.devices
        /\ registry # "ok" => adapters = EmptyMap /\ devices = EmptyMap /\ objs = FreeObjs

(* C8 happens: a load failed, building nothing, where the only fault of the
   file is the unrecognized protocol tag of an enabled device. *)
C8_Witness ==
    /\ registry = "ConfigurationError"
    /\ adapters = EmptyMap
    /\ \E id \in EnabledIds(disk) : UnrecognizedTag(disk, id)
    /\ \A id \in DOMAIN disk.devices :
         /\ disk.devices[id].host_id \in DOMAIN disk.hosts
         /\ disk.devices[id].miernik_id \in DOMAIN disk.mierniki
         /\ ~disk.devices[id].enabled => ~UnrecognizedTag(disk, id)

(* C9: no physical connection handle is used by two exchanges at once.  A
   TCP handle in use has been taken out of every slot and belongs to one
   call; a serial exchange runs under the port mutex of its adapter. *)
C9_NoSharedHandle ==
    /\ \A t, u \in Tasks :
         (t # u /\ tasks[t].conn # NoConn) => tasks[t].conn # tasks[u].conn
    /\ \A t \in Tasks, i \in ObjIds :
         tasks[t].conn # NoConn => objs[i].slot # tasks[t].conn
    /\ \A i, j \in ObjIds :
         (i # j /\ objs[i].slot # NoConn) => objs[i].slot # objs[j].slot
    /\ \A t \in Tasks :
         tasks[t].pc = "serial_io" => objs[tasks[t].obj].mutex = t

(* C9 happens: two execute_command calls are in their exchange with the
   same TCP adapter at the same time. *)
C9_Witness ==
    \E t, u \in Tasks :
        /\ t # u
        /\ tasks[t].obj = tasks[u].obj
        /\ tasks[t].pc \in {"tcp_writing", "tcp_reading"}
        /\ tasks[u].pc \in {"tcp_writing", "tcp_reading"}

(* C10: while an execute_command for device A is at the adapter look-up, no
   other task holds the lock of the adapter map across a connect, write or
   read in progress for a different device B. *)
IoInProgress(tk) ==
    tk.pc \in {"tcp_connecting", "serial_opening", "tcp_writing", "tcp_reading", "serial_io"}

C10_NoLockHeldAcrossOtherIo ==
    \A t, u \in Tasks :
        ~( /\ t # u
           /\ tasks[t].op = "exec" /\ tasks[t].pc = "get_adapter"
           /\ u \in readers
           /\ IoInProgress(tasks[u])
           /\ objs[tasks[u].obj].dev # tasks[t].dev )

(* Call t has returned from execute_command. *)
ExecReturned(t) == tasks[t].op = "exec" /\ tasks[t].pc = "done"

(* C11: once a save_config or delete_config has returned Ok, and no other
   call has been made (so that nothing but a new call can still happen),
   the configuration is persisted and the adapter map has been rebuilt to
   match the device map. *)
C11_SaveRebuildsAdapters ==
    \A t \in Tasks :
        ( /\ tasks[t].op \in {"save", "delete"}
          /\ tasks[t].pc = "done" /\ tasks[t].result = "Ok"
          /\ \A u \in Tasks \ {t} : tasks[u].pc = "idle" )
        => /\ disk = AppConfig(hosts, mierniki, devices)
           /\ DOMAIN adapters = get_devices

(* C12: an execute_command whose command name, lower-cased, is not a key of
   the command map of the device's adapter returns InvalidCommand to the
   caller of the registry, with no connect and no write attempted. *)
C12_UnknownCommandInvalidCommand ==
    [][ \A t \in Tasks :
          ( /\ tasks[t].op = "exec" /\ tasks[t].pc = "get_adapter"
            /\ tasks'[t] # tasks[t]
            /\ tasks[t].dev \in DOMAIN adapters
            /\ to_lowercase(tasks[t].cmd) \notin objs[adapters[tasks[t].dev]].cmds )
          => /\ tasks'[t].pc = "done"
             /\ tasks'[t].result = "InvalidCommand"
             /\ tasks'[t].log = << >> ]_vars

(* C13: a failure that starts in the transport or the parser as Timeout,
   ConnectionError, IoError or ProtocolError reaches the caller of
   execute_command as that same kind. *)
TransportErrorKinds == {"Timeout", "ConnectionError", "IoError", "ProtocolError"}

C13_ErrorKindsPreserved ==
    \A t \in Tasks :
        (ExecReturned(t) /\ tasks[t].err \in TransportErrorKinds)
            => tasks[t].result = tasks[t].err

(* Event e is in the log of a call. *)
Has(log, e) == \E i \in DOMAIN log : log[i] = e

Count(log, e) == Cardinality({ i \in DOMAIN log : log[i] = e })

(* C14: an execute_command never returns for want of a connection without
   having attempted to connect: on a transport that holds no handle it
   connects first, TCP and serial alike. *)
C14_AutoConnect ==
    \A t \in Tasks :
        (ExecReturned(t) /\ tasks[t].err = "ConnectionError")
            => Has(tasks[t].log, "connect")

(* C15: an execute_command makes at most one connect attempt, one write
   and one parse, in that order, and returns at its first failure: no write
   after a failed connect, no parse after a failed exchange. *)
C15_OneAttemptNoRetry ==
    \A t \in Tasks :
        tasks[t].op = "exec" =>
            /\ Count(tasks[t].log, "connect") + Count(tasks[t].log, "held") <= 1
            /\ Count(tasks[t].log, "write") <= 1
            /\ Count(tasks[t].log, "parse") <= 1
            /\ Len(tasks[t].log) <= 3
            /\ tasks[t].err = "ConnectionError" => ~Has(tasks[t].log, "write")
            /\ tasks[t].err \in {"ConnectionError", "Timeout", "IoError"}
                   => ~Has(tasks[t].log, "parse")
            /\ Has(tasks[t].log, "parse") => Has(tasks[t].log, "write")

(* C15 happens: a call whose only connect attempt failed has returned the
   failure, with nothing written. *)
C15_Witness ==
    \E t \in Tasks :
        /\ ExecReturned(t)
        /\ tasks[t].log = << "connect" >>
        /\ tasks[t].err \in {"Timeout", "ConnectionError"}
        /\ tasks[t].result # "Ok"

(* C16: when an exchange returns with an I/O error, the transport of its
   adapter holds no handle, TCP and serial alike. *)
C16_IoErrorDropsHandle ==
    [][ \A t \in Tasks :
          ( /\ tasks[t].op = "exec" /\ Active(tasks[t])
            /\ tasks'[t].pc = "done" /\ tasks'[t].err = "IoError" )
          => objs'[tasks[t].obj].slot = NoConn ]_vars

(* C17: a connect() on a transport that holds a handle returns success and
   nothing of the transport changes: no attempt is started, the handle is
   neither replaced nor closed. *)
C17_ConnectIdempotent ==
    [][ \A t \in Tasks :
          /\ ( /\ tasks[t].pc = "tcp_check" /\ tasks'[t] # tasks[t]
               /\ objs[tasks[t].obj].slot # NoConn )
             => (objs' = objs /\ tasks'[t].pc \in {"tcp_take", "ca_loop"})
          /\ ( /\ tasks[t].pc = "ca_loop" /\ tasks'[t].todo # tasks[t].todo
               /\ objs[tasks'[t].obj].kind = "serial"
               /\ objs[tasks'[t].obj].slot # NoConn )
             => (objs' = objs /\ tasks'[t].pc = "ca_loop") ]_vars

(* C17 happens: a connect_all_devices found the TCP adapter connected,
   went on, and the adapter still holds its handle. *)
C17_Witness ==
    \E t \in Tasks :
        /\ tasks[t].op = "connect_all" /\ tasks[t].pc = "ca_loop"
        /\ tasks[t].obj # NoObj
        /\ objs[tasks[t].obj].kind = "tcp"
        /\ tasks[t].log # << >> /\ tasks[t].log[Len(tasks[t].log)] = "held"
        /\ objs[tasks[t].obj].slot # NoConn

(* C18: a disconnect() leaves its transport without a handle and the
   caller goes on as after a success, whether a handle was held or not; on a
   transport without a handle it changes nothing. *)
C18_DisconnectIdempotent ==
    [][ \A t \in Tasks :
          (tasks[t].pc = "da_loop" /\ tasks'[t].todo # tasks[t].todo)
          => \A id \in tasks[t].todo \ tasks'[t].todo :
                /\ objs'[adapters[id]].slot = NoConn
                /\ objs[adapters[id]].slot = NoConn => objs' = objs
                /\ tasks'[t].pc = "da_loop" ]_vars

(* C18 happens: one disconnect_all_devices has dropped a held handle and
   has disconnected a transport that held none. *)
C18_Witness ==
    \E t \in Tasks :
        /\ tasks[t].op = "disconnect_all"
        /\ Has(tasks[t].log, "closed") /\ Has(tasks[t].log, "noop")
        /\ \A id \in DOMAIN adapters : objs[adapters[id]].slot = NoConn

(* C20: a connect_all_devices or disconnect_all_devices that has returned
   has returned without error and has left no adapter of the map
   unattempted, whatever the single connects and disconnects did. *)
C20_FanOutBestEffort ==
    \A t \in Tasks :
        (tasks[t].op \in {"connect_all", "disconnect_all"} /\ tasks[t].pc = "done")
            => (tasks[t].result = "Ok" /\ tasks[t].todo = {})

(* C20 happens: connect_all_devices, the only call made, has returned
   after both adapters were attempted, one connect failed and one
   succeeded. *)
C20_Witness ==
    \E t \in Tasks :
        /\ tasks[t].op = "connect_all" /\ tasks[t].pc = "done"
        /\ \A u \in Tasks \ {t} : tasks[u].pc = "idle"
        /\ tasks[t].log = << "connect", "connect" >>
        /\ \E i, j \in DOMAIN adapters :
             objs[adapters[i]].slot = NoConn /\ objs[adapters[j]].slot # NoConn

(***************************************************************************)
(* Command look-up: a registry built from a CommandMap with the key        *)
(* readGross and one more key, and requests that name a command in any     *)
(* mix of cases.                                                           *)
(***************************************************************************)
tare == <<"t","a","r","e">>

(* Every spelling of word in upper and lower case letters. *)
CaseVariants(word) ==
    { [ i \in DOMAIN word |-> IF i \in upper THEN UpperChar(word[i]) ELSE LowerChar(word[i]) ] :
        upper \in SUBSET DOMAIN word }

ReadGrossNames ==
    { to_lowercase(readGross),
      to_uppercase(readGross),
      <<"R","e","a","d","G","r","o","s","s">> }

LookupKeys == CaseVariants(tare)

LookupNames == ReadGrossNames \cup CaseVariants(tare) \cup { readGross, Bogus, <<"t","a","r","a">> }

LookupMierniki(k) ==
    [ InitialMierniki EXCEPT !["m1"] = MiernikConfig(RINCMD, {readGross, k}) ]

InitLookup ==
    \E k \in LookupKeys :
        /\ registry = "ok"
        /\ hosts = InitialHosts
        /\ mierniki = LookupMierniki(k)
        /\ devices = InitialDevices
        /\ disk = AppConfig(hosts, mierniki, devices)
        /\ adapters = AllocMap(FreeObjs, build_adapters(hosts, mierniki, devices).ids)
        /\ objs = AllocObjs(FreeObjs, hosts, mierniki, devices, build_adapters(hosts, mierniki, devices).ids)
        /\ readers = {}
        /\ writer = NoTask
        /\ tasks = [ t \in Tasks |-> IdleTask ]

NextLookup ==
    \E t \in Tasks :
        \/ \E name \in LookupNames : execute_command(t, "d1", name)
        \/ get_adapter(t)

SpecLookup == InitLookup /\ [][NextLookup]_vars

(* The CommandMap the adapter of device id was built from. *)
CommandMapOf(id) == mierniki[devices[id].miernik_id].commands

(* C19: the look-up of a command name succeeds exactly when the lower-cased
   name equals the lower-cased form of a configured key; with the key
   readGross configured, readgross, READGROSS and ReadGross all resolve, and
   to the one entry of readGross. *)
C19_LookupCaseInsensitive ==
    [][ \A t \in Tasks :
          ( /\ tasks[t].op = "exec" /\ tasks[t].pc = "get_adapter"
            /\ tasks'[t] # tasks[t]
            /\ tasks[t].dev \in DOMAIN adapters )
          => /\ (tasks'[t].pc # "done")
                   <=> (\E k \in CommandMapOf(tasks[t].dev) :
                            to_lowercase(k) = to_lowercase(tasks[t].cmd))
             /\ (tasks'[t].pc = "done") => tasks'[t].err = "InvalidCommand"
             /\ ( /\ readGross \in CommandMapOf(tasks[t].dev)
                  /\ tasks[t].cmd \in ReadGrossNames )
                => /\ tasks'[t].pc # "done"
                   /\ to_lowercase(tasks[t].cmd) = to_lowercase(readGross)
                   /\ to_lowercase(tasks[t].cmd) \in objs[adapters[tasks[t].dev]].cmds ]_vars

(* C19 happens: a request for ReadGross was resolved by an adapter built
   from the key readGross, which has no key spelled ReadGross, and another
   request was turned down as InvalidCommand. *)
C19_Witness ==
    \E t, u \in Tasks :
        /\ tasks[t].op = "exec" /\ tasks[t].pc = "tcp_clear"
        /\ tasks[t].cmd = <<"R","e","a","d","G","r","o","s","s">>
        /\ readGross \in CommandMapOf(tasks[t].dev)
        /\ tasks[t].cmd \notin CommandMapOf(tasks[t].dev)
        /\ ExecReturned(u) /\ tasks[u].err = "InvalidCommand"

(* C21: constructing the registry from a path at which no file exists
   fails with ConfigurationError and produces no registry. *)
C21_MissingFileFailsLoad ==
    [][ (disk = NoFile /\ registry = "none" /\ registry' # "none")
          => (registry' = "ConfigurationError" /\ disk' = NoFile) ]_vars

(***************************************************************************)
(* The parsers applied to a response: Device::execute_command lines 98-111 *)
(* picks the parser by protocol; DiniArgeoAsciiAdapter::execute_command    *)
(* uses its own.                                                           *)
(***************************************************************************)
ParserOf(protocol) ==
    IF protocol = "Rincmd" THEN "parse_rincmd_response" ELSE "parse_dini_ascii_response"

parse_response(t, protocol) ==
    /\ tasks[t].op = "parse" /\ tasks[t].pc = "parsing"
    /\ tasks' = [ tasks EXCEPT ![t].pc = "done",
                               ![t].op = ParserOf(protocol),
                               ![t].reading = IF protocol = "Rincmd"
                                              THEN parse_rincmd_response(tasks[t].response)
                                              ELSE parse_dini_ascii_response(tasks[t].response) ]
    /\ UNCHANGED << registry, disk, hosts, mierniki, devices, adapters, objs, readers, writer >>

to_weight_reading(t) ==
    /\ tasks[t].op = "parse" /\ tasks[t].pc = "parsing"
    /\ tasks' = [ tasks EXCEPT ![t].pc = "done",
                               ![t].op = "parse_weight_from_response",
                               ![t].reading = parse_weight_from_response(tasks[t].response) ]
    /\ UNCHANGED << registry, disk, hosts, mierniki, devices, adapters, objs, readers, writer >>

InitParse ==
    \E response \in Responses :
        /\ registry = "ok"
        /\ disk = InitialConfig
        /\ hosts = InitialConfig.hosts
        /\ mierniki = InitialConfig.mierniki
        /\ devices = InitialConfig.devices
        /\ adapters = AllocMap(FreeObjs, build_adapters(hosts, mierniki, devices).ids)
        /\ objs = AllocObjs(FreeObjs, hosts, mierniki, devices, build_adapters(hosts, mierniki, devices).ids)
        /\ readers = {}
        /\ writer = NoTask
        /\ tasks = [ t \in Tasks |->
                       IF t = 1 THEN [ IdleTask EXCEPT !.op = "parse", !.pc = "parsing",
                                                       !.response = response ]
                       ELSE IdleTask ]

NextParse ==
    \E t \in Tasks :
        \/ \E protocol \in {"Rincmd", "DiniAscii"} : parse_response(t, protocol)
        \/ to_weight_reading(t)

SpecParse == InitParse /\ [][NextParse]_vars

(* A response parsed by parser. *)
Parsed(t, parser) == tasks[t].op = parser /\ tasks[t].pc = "done"

(* The fixed-width form at position i of s: eight digits, a sign, digits, a
   point at b, digits, and kg or lb at c. *)
FixedWidthAt(s, i, b, c) ==
    /\ i + 8 < b /\ b + 1 < c
    /\ \A k \in i..(i + 7) : IsDigit(s[k])
    /\ IsSign(s[i + 8])
    /\ \A k \in (i + 9)..(b - 1) : IsDigit(s[k])
    /\ s[b] = "."
    /\ \A k \in (b + 1)..(c - 1) : IsDigit(s[k])
    /\ (StartsAt(s, c, kg) \/ StartsAt(s, c, lb))

HasFixedWidthAt(s, i) == \E b, c \in DOMAIN s : FixedWidthAt(s, i, b, c)

(* C22: for a response that contains the fixed-width form, the Rinstrum
   parser reads the first such form whatever colon or S/U form the response
   also has: the signed value is the gross weight for code 20050026 and the
   net weight for code 20050025, the other weight is 0.0, the unit is the
   matched unit and the reading is stable. *)
C22_FixedWidthPatternWins ==
    \A t \in Tasks :
        Parsed(t, "parse_rincmd_response") =>
            LET s == tasks[t].response
                r == tasks[t].reading
            IN \A i \in DOMAIN s :
                 (HasFixedWidthAt(s, i) /\ \A j \in 1..(i - 1) : ~HasFixedWidthAt(s, j))
                 => \A b, c \in DOMAIN s :
                      FixedWidthAt(s, i, b, c) =>
                        LET value == F64(s[i + 8], SubSeq(s, i + 9, b - 1), SubSeq(s, b + 1, c - 1))
                            code == SubSeq(s, i, i + 7)
                        IN /\ r.ok /\ r.is_stable
                           /\ r.unit = SubSeq(s, c, c + 1)
                           /\ code = ReadGrossCode => (r.gross_weight = value /\ r.net_weight = Zero)
                           /\ code = ReadNetCode => (r.net_weight = value /\ r.gross_weight = Zero)

(* C22 happens: "20050026+123.45kg" was read as gross 123.45, net 0.0, kg,
   stable. *)
C22_Witness ==
    \E t \in Tasks :
        /\ Parsed(t, "parse_rincmd_response")
        /\ tasks[t].response = ReadGrossCode \o <<"+","1","2","3",".","4","5","k","g">>
        /\ tasks[t].reading = WeightReading(F64("+", <<"1","2","3">>, <<"4","5">>), Zero, kg, TRUE)

(* C23: the unit of a Dini-Argeo reading is the alphabetic run that follows
   the matched number, and kg when no such run follows; a status field
   before the number is never the unit. *)
C23_DiniUnitFollowsNumber ==
    \A t \in Tasks :
        (Parsed(t, "parse_dini_ascii_response") /\ tasks[t].reading.ok) =>
            LET cleaned == trim(tasks[t].response) IN
            NumStarts(cleaned, FALSE) # {} =>
                LET p == NumPos(cleaned, Min(NumStarts(cleaned, FALSE)), FALSE) IN
                to_lowercase(tasks[t].reading.unit)
                    = to_lowercase(FirstUnitRun(cleaned, p.end, kg))

(* C24: for a comma-separated response the Dini-Argeo adapter reports the
   reading stable exactly when the first field starts with S, whatever form
   the last field has. *)
C24_DiniStabilityFromFirstField ==
    \A t \in Tasks :
        ( /\ Parsed(t, "parse_weight_from_response") /\ tasks[t].reading.ok
          /\ CommaPositions(tasks[t].response) # {} )
        => (tasks[t].reading.is_stable
              <=> At(to_uppercase(trim(FirstField(tasks[t].response))), 1) = "S")

(* A reload replaces the adapter map. *)
Installs(t) == tasks[t].pc = "rl_install" /\ tasks'[t].pc = "ca_lock"

(* C25: when a reload installs its new adapter map, it has called
   disconnect() on every adapter of the map it replaces, and no adapter of
   the new map has been connected or is being connected. *)
C25_DisconnectBeforeInstall ==
    [][ \A t \in Tasks :
          Installs(t) =>
            /\ \A id \in DOMAIN adapters : adapters[id] \in tasks[t].disconnected
            /\ \A id \in DOMAIN tasks[t].newmap :
                 /\ objs[tasks[t].newmap[id]].slot = NoConn
                 /\ \A u \in Tasks : tasks[u].obj # tasks[t].newmap[id] ]_vars

(* C26: no task waits on a connect, a write or a read while it holds the
   read guard or the write lock of the adapter map. *)
C26_NoLockAcrossIo ==
    \A t \in Tasks :
        IoInProgress(tasks[t]) => (t \notin readers /\ writer # t)

(* Call t has created the configuration file and has not yet written it. *)
WritingFile(t) == tasks[t].pc \in {"wc_snapshot", "wc_serialize"}

(* C27: the file writes of two save_config / delete_config calls never
   overlap: while one call is between creating the file and having written
   it, no other call is. *)
C27_FileWritesSerialized ==
    \A t, u \in Tasks : (t # u /\ WritingFile(t)) => ~WritingFile(u)

(* Call t is in the write or read phase of an exchange and returns in this
   step. *)
ExchangeReturns(t) ==
    /\ tasks[t].op = "exec"
    /\ tasks[t].pc \in {"tcp_writing", "tcp_reading", "serial_io"}
    /\ tasks'[t].pc = "done"

(* C28: an exchange that ends otherwise than with an I/O error leaves its
   handle in the slot of its transport: after a write or read timeout (and
   after a response) the TCP stream the exchange used is back in the slot,
   and the serial port is still in its slot. *)
C28_TimeoutKeepsHandle ==
    [][ \A t \in Tasks :
          ( /\ ExchangeReturns(t)
            /\ tasks'[t].err # "IoError"
            /\ objs'[tasks[t].obj] # Dropped )
          => LET o == tasks[t].obj IN
             /\ objs'[o].slot # NoConn
             /\ objs[o].kind = "tcp" => objs'[o].slot = tasks[t].conn
             /\ objs[o].kind = "serial" => objs'[o].slot = objs[o].slot ]_vars

(* C28 happens: the only call made, an execute_command, has written its
   command, has returned with a timeout, and the adapter holds a handle. *)
C28_Witness ==
    \E t \in Tasks :
        /\ ExecReturned(t) /\ tasks[t].err = "Timeout"
        /\ Has(tasks[t].log, "write")
        /\ \A u \in Tasks \ {t} : tasks[u].pc = "idle"
        /\ tasks[t].dev \in DOMAIN adapters
        /\ objs[adapters[tasks[t].dev]].kind = "tcp"
        /\ objs[adapters[tasks[t].dev]].slot # NoConn

(***************************************************************************)
(* The read phase of an exchange: what the device puts on the wire after   *)
(* the command, chunk by chunk as the reads of the transport see it, and   *)
(* what send_serial and send_tcp make of it.                               *)
(***************************************************************************)
newline == "\n"

(* What a device answers: nothing, a line, a line without its end. *)
WireMessages ==
    { << >>,
      <<"7">>,
      <<"7", newline>>,
      <<"4", "2", newline>>,
      <<" ", "7", "\r", newline>> }

(* The ways the bytes of s arrive in non-empty chunks. *)
RECURSIVE Splits(_)
Splits(s) ==
    IF s = << >> THEN { << >> }
    ELSE UNION { { <<SubSeq(s, 1, k)>> \o rest : rest \in Splits(SubSeq(s, k + 1, Len(s))) }
                 : k \in 1..Len(s) }

(* A read may also return no byte at all: Ok(0), the end of the stream. *)
Wires ==
    LET plain == UNION { Splits(m) : m \in WireMessages } IN
    plain \cup { << << >> >> \o w : w \in plain } \cup { w \o << << >> >> : w \in plain }

RECURSIVE Flatten(_)
Flatten(w) == IF w = << >> THEN << >> ELSE Head(w) \o Flatten(Tail(w))

ReadReturn(t, result, err, received, response) ==
    tasks' = [ tasks EXCEPT ![t].pc = "done", ![t].result = result, ![t].err = err,
                            ![t].received = received, ![t].response = response,
                            ![t].io = @ + 1 ]

(* One turn of the loop of send_serial, lines 199-226: the deadline test,
   then one port.read.  elapsed is the outcome of the deadline test; the
   clock starts just before the loop, so the test cannot succeed before a
   read has blocked.  A read returns the next chunk if the device has one
   and runs into the port's time-out otherwise. *)
send_serial_read(t, elapsed, outcome) ==
    /\ tasks[t].op = "send_serial" /\ tasks[t].pc = "reading"
    /\ elapsed => tasks[t].io >= 1
    /\ LET tk == tasks[t]
           got == tk.received \o Head(tk.wire)
       IN IF elapsed
            THEN ReadReturn(t, "Err", "Timeout", tk.received, << >>)
          ELSE IF outcome = "io_error"
            THEN ReadReturn(t, "Err", "IoError", tk.received, << >>)
          ELSE IF tk.wire = << >>
            THEN IF tk.received = << >>
                   THEN ReadReturn(t, "Err", "Timeout", tk.received, << >>)
                   ELSE ReadReturn(t, "Ok", "", tk.received, trim(tk.received))
          ELSE IF Head(tk.wire) = << >>
            THEN tasks' = [ tasks EXCEPT ![t].wire = Tail(@), ![t].io = @ + 1 ]
          ELSE IF Has(got, newline)
            THEN tasks' = [ tasks EXCEPT ![t].wire = Tail(@), ![t].pc = "done",
                                         ![t].result = "Ok", ![t].received = got,
                                         ![t].response = trim(got), ![t].io = @ + 1 ]
          ELSE tasks' = [ tasks EXCEPT ![t].wire = Tail(@), ![t].received = got,
                                       ![t].io = @ + 1 ]
    /\ UNCHANGED << registry, disk, hosts, mierniki, devices, adapters, objs, readers, writer >>

(* The read of send_tcp, lines 122-163: one conn.read under the time-out. *)
send_tcp_read(t, outcome) ==
    /\ tasks[t].op = "send_tcp" /\ tasks[t].pc = "reading"
    /\ LET tk == tasks[t] IN
       IF outcome = "io_error"
         THEN ReadReturn(t, "Err", "IoError", << >>, << >>)
       ELSE IF tk.wire = << >>
         THEN ReadReturn(t, "Err", "Timeout", << >>, << >>)
       ELSE tasks' = [ tasks EXCEPT ![t].wire = Tail(@), ![t].pc = "done",
                                    ![t].result = "Ok", ![t].received = Head(tk.wire),
                                    ![t].response = trim(Head(tk.wire)), ![t].io = @ + 1 ]
    /\ UNCHANGED << registry, disk, hosts, mierniki, devices, adapters, objs, readers, writer >>

InitRead ==
    \E wire \in Wires, transport \in {"send_serial", "send_tcp"} :
        /\ registry = "ok"
        /\ disk = InitialConfig
        /\ hosts = InitialConfig.hosts
        /\ mierniki = InitialConfig.mierniki
        /\ devices = InitialConfig.devices
        /\ adapters = AllocMap(FreeObjs, build_adapters(hosts, mierniki, devices).ids)
        /\ objs = AllocObjs(FreeObjs, hosts, mierniki, devices, build_adapters(hosts, mierniki, devices).ids)
        /\ readers = {}
        /\ writer = NoTask
        /\ tasks = [ t \in Tasks |->
                       IF t = 1 THEN [ IdleTask EXCEPT !.op = transport, !.pc = "reading",
                                                       !.wire = wire ]
                       ELSE IdleTask ]

NextRead ==
    \E t \in Tasks :
        \/ \E elapsed \in BOOLEAN, outcome \in {"ok", "io_error"} :
              send_serial_read(t, elapsed, outcome)
        \/ \E outcome \in {"ok", "io_error"} : send_tcp_read(t, outcome)

SpecRead == InitRead /\ [][NextRead]_vars

(* The read phase of a transport has returned without an I/O error. *)
ReadReturned(t) ==
    /\ tasks[t].op \in {"send_serial", "send_tcp"}
    /\ tasks[t].pc = "done"
    /\ tasks[t].err # "IoError"

(* C29: whatever the transport and however the bytes are split across
   reads, the read phase ends only once a newline was read or the device
   has fallen silent; it then returns the bytes read, trimmed, as a
   success if there is at least one, and fails with Timeout if no byte was
   read at all, a read of zero bytes included. *)
C29_ReadUntilNewlineOrTimeout ==
    \A t \in Tasks :
        ReadReturned(t) =>
            IF tasks[t].received = << >>
              THEN tasks[t].result = "Err" /\ tasks[t].err = "Timeout"
              ELSE /\ tasks[t].result = "Ok"
                   /\ tasks[t].response = trim(tasks[t].received)
                   /\ Has(tasks[t].received, newline) \/ tasks[t].wire = << >>

(* An exchange of t is about to use a transport on which an earlier
   exchange succeeded and left its handle in the slot. *)
FollowsExchange(t) ==
    /\ tasks[t].op = "exec"
    /\ tasks[t].pc \in {"tcp_clear", "tcp_check", "tcp_take", "serial_lock"}
    /\ objs[tasks[t].obj].slot # NoConn
    /\ \E u \in Tasks \ {t} :
          /\ ExecReturned(u) /\ tasks[u].result = "Ok"
          /\ tasks[u].dev = tasks[t].dev

(* C30: the exchange that follows a successful exchange on the same
   transport uses the handle that exchange returned to the slot: it does
   not empty the slot other than by taking that handle for its own use, and
   it opens no connection. *)
C30_HandleReuse ==
    [][ \A t \in Tasks :
          (FollowsExchange(t) /\ tasks'[t] # tasks[t])
            => LET o == tasks[t].obj IN
               /\ objs'[o].slot = objs[o].slot \/ tasks'[t].conn = objs[o].slot
               /\ tasks'[t].pc \notin {"tcp_connecting", "serial_opening"} ]_vars

(***************************************************************************)
(* What the fallback scan of the Rinstrum parser is said to read: the text *)
(* after the last colon, and its leading run of hexadecimal digits.        *)
(***************************************************************************)
HexLetters == <<"A","B","C","D","E","F">>

IsHexChar(c) == IsDigit(c) \/ IndexIn(c, HexLetters) # 0

HexCharValue(c) == IF IsDigit(c) THEN IndexIn(c, Digits) - 1 ELSE 9 + IndexIn(c, HexLetters)

(* The value of at most seven hexadecimal digits. *)
RECURSIVE HexValue(_)
HexValue(run) ==
    IF run = << >> THEN 0
    ELSE 16 * HexValue(SubSeq(run, 1, Len(run) - 1)) + HexCharValue(run[Len(run)])

RECURSIVE DecimalDigits(_)
DecimalDigits(n) ==
    IF n < 10 THEN <<Digits[n + 1]>> ELSE DecimalDigits(n \div 10) \o <<Digits[(n % 10) + 1]>>

(* A run of up to eight hexadecimal digits as a 32-bit two's-complement
   number.  The magnitude of 80000000 does not fit a 32-bit integer and is
   written out. *)
TwosComplement(run) ==
    LET top == IF Len(run) = 8 THEN HexCharValue(run[1]) ELSE 0
        low == HexValue(IF Len(run) = 8 THEN Tail(run) ELSE run)
        p28 == 268435456
    IN IF top < 8 THEN F64("", DecimalDigits(top * p28 + low), << >>)
       ELSE IF top = 8 /\ low = 0
         THEN F64("-", <<"2","1","4","7","4","8","3","6","4","8">>, << >>)
       ELSE F64("-", DecimalDigits((15 - top) * p28 + (p28 - low)), << >>)

(* The text the scan searches: what follows the last colon. *)
AfterLastColon(response) ==
    LET cleaned == trim(response) IN
    IF ColonPositions(cleaned) = {} THEN cleaned
    ELSE trim(SubSeq(cleaned, Max(ColonPositions(cleaned)) + 1, Len(cleaned)))

HexRunEnd(s) ==
    IF \E j \in DOMAIN s : ~IsHexChar(s[j])
    THEN Min({ j \in DOMAIN s : ~IsHexChar(s[j]) })
    ELSE Len(s) + 1

(* The response is left to the fallback scan. *)
FallsBack(response) ==
    /\ trim(response) \notin { << >>, <<"E">> }
    /\ Pattern1Starts(response) = {} /\ Pattern2Starts(response) = {}

(* C31: in the fallback scan of the Rinstrum parser the number is looked
   for after the last colon; a leading run of hexadecimal digits with a
   letter A-F in it is read as a 32-bit two's-complement value, a leading
   run of decimal digits that is not followed by a point as plain decimal. *)
C31_FallbackHexTwosComplement ==
    \A t \in Tasks :
        (Parsed(t, "parse_rincmd_response") /\ FallsBack(tasks[t].response)) =>
            LET text == AfterLastColon(tasks[t].response)
                run == SubSeq(text, 1, HexRunEnd(text) - 1)
                r == tasks[t].reading
            IN (run # << >> /\ Len(run) <= 8 /\ At(text, Len(run) + 1) # ".") =>
                 /\ r.ok
                 /\ r.gross_weight = IF \E j \in DOMAIN run : ~IsDigit(run[j])
                                      THEN TwosComplement(run)
                                      ELSE F64("", run, << >>)

(* The first white-space separated token of a response. *)
FirstToken(response) ==
    LET cleaned == trim(response) IN SubSeq(cleaned, 1, RunEnd(cleaned, 1, "\\S") - 1)

(* C32: a response without a colon that the Rinstrum parser reads by its
   fallback scan gives one value as both gross and net weight; the reading
   is stable exactly when the first token is S or the value is zero; the
   unit is the alphabetic run after the number, kg when there is none.
   "S -32.000 kg" is -32.0 stable, "U 00032.000 kg" is 32.0 unstable and
   "U 0.000 kg" is 0.0 stable. *)
C32_FallbackSingleValue ==
    \A t \in Tasks :
        ( /\ Parsed(t, "parse_rincmd_response") /\ FallsBack(tasks[t].response)
          /\ ColonPositions(tasks[t].response) = {} ) =>
            LET s == trim(tasks[t].response)
                r == tasks[t].reading
            IN /\ r.ok <=> NumStarts(s, TRUE) # {}
               /\ r.ok =>
                    /\ r.gross_weight = r.net_weight
                    /\ r.is_stable <=> (FirstToken(s) = <<"S">> \/ r.gross_weight = Zero)
                    /\ \E p \in { NumPos(s, Min(NumStarts(s, TRUE)), TRUE) } :
                         /\ r.gross_weight = NumValue(s, p)
                         /\ r.unit = FirstUnitRun(s, p.end, kg)
               /\ s = <<"S"," ","-","3","2",".","0","0","0"," ","k","g">>
                    => r = WeightReading(F64("-", <<"3","2">>, << >>),
                                         F64("-", <<"3","2">>, << >>), kg, TRUE)
               /\ s = <<"U"," ","0","0","0","3","2",".","0","0","0"," ","k","g">>
                    => r = WeightReading(F64("", <<"3","2">>, << >>),
                                         F64("", <<"3","2">>, << >>), kg, FALSE)

(* C32 happens: "U 0.000 kg" was read as 0.0 kg, stable in spite of its
   flag. *)
C32_Witness ==
    \E t \in Tasks :
        /\ Parsed(t, "parse_rincmd_response")
        /\ tasks[t].response = <<"U"," ","0",".","0","0","0"," ","k","g">>
        /\ tasks[t].reading = WeightReading(Zero, Zero, kg, TRUE)

(* C33: of two execute_command calls on the same TCP device, the one whose
   connect_tcp has returned Ok finds a handle to take: it does not return
   "No active TCP connection" on account of what the other call did to the
   slot. *)
C33_ConcurrentExecNoLostHandle ==
    [][ \A t \in Tasks :
          ( /\ tasks[t].op = "exec" /\ tasks[t].pc = "tcp_take"
            /\ \A u \in Tasks \ {t} :
                  tasks[u].op = "exec" /\ tasks[u].dev = tasks[t].dev )
          => tasks'[t].pc # "done" ]_vars

(***************************************************************************)
(* The calls as tasks of one actix worker, a single-threaded executor.     *)
(* adapters is a parking_lot::RwLock: write() blocks the thread until the  *)
(* readers have left, and while the thread is blocked no other task of the *)
(* worker is polled, a task suspended in connect or disconnect with the    *)
(* read guard included.                                                    *)
(***************************************************************************)
BlocksThread(t) == tasks[t].pc = "rl_install" /\ writer = t /\ readers # {}

(* A task is polled only while no task blocks the thread. *)
Polled(t) == \A u \in Tasks \ {t} : ~BlocksThread(u)

(* The calls of the worker: commands, the two fan-outs and reloads. *)
WorkerStep(t) ==
    \/ Polled(t) /\ (\E id \in RequestIds, cmd \in Commands : execute_command(t, id, cmd))
    \/ Polled(t) /\ (get_adapter(t))
    \/ Polled(t) /\ (send_tcp_clear(t))
    \/ Polled(t) /\ (connect_tcp_check(t))
    \/ Polled(t) /\ (\E outcome \in ConnectOutcomes : connect_tcp_done(t, outcome))
    \/ Polled(t) /\ (send_tcp_take(t))
    \/ Polled(t) /\ (\E outcome \in WriteOutcomes : send_tcp_write_done(t, outcome))
    \/ Polled(t) /\ (\E outcome \in ReadOutcomes : send_tcp_read_done(t, outcome))
    \/ Polled(t) /\ (send_serial_lock(t))
    \/ Polled(t) /\ (\E outcome \in SerialOutcomes : send_serial_done(t, outcome))
    \/ Polled(t) /\ (connect_all_devices(t))
    \/ Polled(t) /\ (connect_all_lock(t))
    \/ Polled(t) /\ (connect_all_next(t))
    \/ Polled(t) /\ (\E outcome \in OpenOutcomes : connect_serial_done(t, outcome))
    \/ Polled(t) /\ (connect_all_end(t))
    \/ Polled(t) /\ (disconnect_all_devices(t))
    \/ Polled(t) /\ (disconnect_lock(t))
    \/ Polled(t) /\ (disconnect_next(t))
    \/ Polled(t) /\ (disconnect_end(t))
    \/ Polled(t) /\ (reload_config(t))
    \/ Polled(t) /\ (reload_maps(t))
    \/ Polled(t) /\ (rebuild_adapters(t))
    \/ Polled(t) /\ (rebuild_write_lock(t))
    \/ Polled(t) /\ (rebuild_install(t))

NextWorker == \E t \in Tasks : WorkerStep(t)

(* Fair scheduling: a task that can be polled is polled. *)
SpecWorker == Init /\ [][NextWorker]_vars /\ \A t \in Tasks : WF_vars(WorkerStep(t))

(* C34: under fair scheduling, with every connect, write and read
   completing or timing out, every call that has started returns, also
   when the calls share one executor thread. *)
C34_EveryCallReturns ==
    \A t \in Tasks : (tasks[t].pc \notin {"idle", "done"}) ~> (tasks[t].pc = "done")


(***************************************************************************)
(* A disconnect of a transport racing an exchange on it.                   *)
(***************************************************************************)
(* The exchange of t has taken the handle of transport o out of the slot
   and has not yet finished its write and read. *)
InFlight(t, o) ==
    /\ tasks[t].op = "exec"
    /\ tasks[t].pc \in {"tcp_writing", "tcp_reading"}
    /\ tasks[t].obj = o
    /\ tasks[t].conn # NoConn

(* disconnect_all_devices of u has still to call disconnect on o. *)
DisconnectAhead(u, o) ==
    /\ tasks[u].op = "disconnect_all"
    /\ tasks[u].pc = "da_loop"
    /\ \E id \in tasks[u].todo : adapters[id] = o

(* C35: when a disconnect of a TCP transport is still to be called while
   an exchange is in flight on it, then from the moment both calls have
   returned the slot of the transport is empty: the exchange does not put
   its handle back after the disconnect. *)
C35_DisconnectWinsOverExchange ==
    \A t \in Tasks : \A u \in Tasks \ {t} : \A o \in ObjIds :
        []( (InFlight(t, o) /\ DisconnectAhead(u, o))
              => []( (tasks[t].pc = "done" /\ tasks[u].pc = "done")
                        => objs[o].slot = NoConn ) )

(* Every call made so far was a save_config or a delete_config and has
   returned Ok. *)
SavesReturnedOk ==
    /\ \E t \in Tasks : tasks[t].pc = "done"
    /\ \A t \in Tasks :
          \/ tasks[t].pc = "idle"
          \/ /\ tasks[t].pc = "done"
             /\ tasks[t].op \in {"save", "delete"}
             /\ tasks[t].result = "Ok"

(* C36: at quiescence, after save_config and delete_config calls, made
   concurrently or not, have all returned Ok, the configuration file holds
   the host, miernik and device maps of the registry. *)
C36_PersistedEqualsMemoryAtQuiescence ==
    SavesReturnedOk => disk = AppConfig(hosts, mierniki, devices)

(* C37: when the only call made, a save_config or a delete_config, has
   returned the error of a failed write of the configuration file, the
   device map is the one the registry had before the call. *)
C37_FailedPersistLeavesDeviceMap ==
    \A t \in Tasks :
        ( /\ tasks[t].op \in {"save", "delete"}
          /\ tasks[t].pc = "done" /\ tasks[t].result = "ConfigurationError"
          /\ \A u \in Tasks \ {t} : tasks[u].pc = "idle" )
        => devices = InitialConfig.devices

(* C38: an execute_command that reaches the adapter look-up for a device
   that get_devices lists at that moment is forwarded to an adapter: it does
   not return DeviceNotFound. *)
C38_ListedDeviceDispatches ==
    [][ \A t \in Tasks :
          ( /\ tasks[t].op = "exec" /\ tasks[t].pc = "get_adapter"
            /\ tasks[t].dev \in get_devices
            /\ tasks'[t] # tasks[t] )
          => tasks'[t].result # "DeviceNotFound" ]_vars

(***************************************************************************)
(* DeviceManager::migrate_legacy_config: a legacy file has only devices,   *)
(* each with its own connection, timeout, protocol and command map; the    *)
(* migration builds the host and miernik maps from them.                   *)
(***************************************************************************)
(* The byte of a character, as far as the order of String keys needs it. *)
CharOrd(c) ==
    IF c = "," THEN 44
    ELSE IF c = "-" THEN 45
    ELSE IF IsDigit(c) THEN 47 + IndexIn(c, Digits)
    ELSE IF IndexIn(c, UpperLetters) # 0 THEN 64 + IndexIn(c, UpperLetters)
    ELSE IF IndexIn(c, LowerLetters) # 0 THEN 96 + IndexIn(c, LowerLetters)
    ELSE 0

(* a < b for Strings: byte-wise, a proper prefix first. *)
LexLess(a, b) ==
    \E i \in 1..(Len(a) + 1) :
        /\ \A k \in 1..(i - 1) : k <= Len(b) /\ a[k] = b[k]
        /\ IF i > Len(a) THEN Len(b) >= i
           ELSE i <= Len(b) /\ CharOrd(a[i]) < CharOrd(b[i])

(* keys.sort() *)
RECURSIVE SortedKeys(_)
SortedKeys(keys) ==
    IF keys = {} THEN << >>
    ELSE LET first == CHOOSE k \in keys : \A j \in keys \ {k} : LexLess(k, j)
         IN << first >> \o SortedKeys(keys \ {first})

(* keys.join(",") *)
RECURSIVE JoinKeys(_)
JoinKeys(keys) ==
    IF keys = << >> THEN << >>
    ELSE IF Len(keys) = 1 THEN keys[1]
    ELSE keys[1] \o << "," >> \o JoinKeys(Tail(keys))

(* ConnectionConfig::Tcp and ConnectionConfig::Serial; parity stands for the
   serial settings other than port and baud rate. *)
TcpConnection(host, port) == [ connection_type |-> "Tcp", host |-> host, port |-> port ]

SerialConnection(port, baud_rate, parity) ==
    [ connection_type |-> "Serial", port |-> port, baud_rate |-> baud_rate, parity |-> parity ]

LegacyDeviceConfig(protocol, connection, timeout_ms, commands, enabled) ==
    [ protocol |-> protocol, connection |-> connection, timeout_ms |-> timeout_ms,
      commands |-> commands, enabled |-> enabled ]

(* lines 642-649: the key of a host.  The port and the baud rate are
   numbers, so the formatted text determines its parts: the key is kept as
   the tuple of the parts. *)
host_key(connection) ==
    IF connection.connection_type = "Tcp"
    THEN << "tcp", connection.host, connection.port >>
    ELSE << "serial", connection.port, connection.baud_rate >>

(* lines 674-678: the protocol, a dash, and the sorted command names joined
   by commas. *)
commands_key(protocol, commands) ==
    protocol \o << "-" >> \o JoinKeys(SortedKeys(DOMAIN commands))

(* The host a legacy device is migrated to (lines 654-666). *)
MigratedHost(legacy_device) ==
    [ connection |-> legacy_device.connection, timeout_ms |-> legacy_device.timeout_ms,
      enabled |-> TRUE ]

(* format!("host-{}", n) and format!("miernik-{}", n) *)
new_host_id(n) == << "host", n >>

new_miernik_id(n) == << "miernik", n >>

zero == <<"z","e","r","o">>

LegacyConnections ==
    { TcpConnection("192.168.1.254", 4001),
      TcpConnection("192.168.1.254", 4002),
      SerialConnection("COM1", 9600, "None"),
      SerialConnection("COM1", 9600, "Even") }

LegacyTimeouts == {1000, 3000}

LegacyCommandMaps ==
    { [ k \in {readGross} |-> "20050026" ],
      [ k \in {readGross} |-> "READ" ],
      [ k \in {readGross, tare} |-> IF k = readGross THEN "20050026" ELSE "TARE" ],
      [ k \in {tare, zero} |-> IF k = tare THEN "TARE" ELSE "ZERO" ],
      [ k \in {tare \o << "," >> \o zero} |-> "BOTH" ] }

LegacyDevices ==
    { LegacyDeviceConfig(p, c, ms, cmds, e) :
        p \in {RINCMD, DINI_ARGEO}, c \in LegacyConnections, ms \in LegacyTimeouts,
        cmds \in LegacyCommandMaps, e \in {TRUE} }

(* LegacyAppConfig: the devices of a legacy file. *)
LegacyAppConfigs ==
    UNION { [ ids -> LegacyDevices ] : ids \in SUBSET DeviceIds }

(* The call on entry, lines 632-638: the three maps and the two key maps
   are empty. *)
InitMigrate ==
    \E legacy \in LegacyAppConfigs :
        /\ registry = "none"
        /\ disk = [ devices |-> legacy ]
        /\ hosts = EmptyMap
        /\ mierniki = EmptyMap
        /\ devices = EmptyMap
        /\ adapters = EmptyMap
        /\ objs = FreeObjs
        /\ readers = {}
        /\ writer = NoTask
        /\ tasks = [ t \in Tasks |->
                       IF t = 1
                       THEN [ IdleTask EXCEPT !.op = "migrate", !.pc = "migrating",
                                              !.todo = DOMAIN legacy,
                                              !.snap = [ host_map |-> EmptyMap,
                                                         miernik_map |-> EmptyMap ] ]
                       ELSE IdleTask ]

(* lines 640-706: one turn of the loop over legacy.devices, a HashMap: the
   next device is any of those not yet visited. *)
migrate_legacy_device(t) ==
    /\ tasks[t].op = "migrate" /\ tasks[t].pc = "migrating"
    /\ \E device_id \in tasks[t].todo :
         LET legacy_device == disk.devices[device_id]
             host_map == tasks[t].snap.host_map
             miernik_map == tasks[t].snap.miernik_map
             hkey == host_key(legacy_device.connection)
             ckey == commands_key(legacy_device.protocol, legacy_device.commands)
             host_id == IF hkey \in DOMAIN host_map THEN host_map[hkey]
                        ELSE new_host_id(Cardinality(DOMAIN hosts) + 1)
             miernik_id == IF ckey \in DOMAIN miernik_map THEN miernik_map[ckey]
                           ELSE new_miernik_id(Cardinality(DOMAIN mierniki) + 1)
         IN /\ hosts' = IF hkey \in DOMAIN host_map THEN hosts
                        ELSE Put(hosts, host_id, MigratedHost(legacy_device))
            /\ mierniki' = IF ckey \in DOMAIN miernik_map THEN mierniki
                           ELSE Put(mierniki, miernik_id,
                                    MiernikConfig(legacy_device.protocol, legacy_device.commands))
            /\ devices' = Put(devices, device_id,
                              DeviceConfig(host_id, miernik_id, legacy_device.enabled))
            /\ tasks' = [ tasks EXCEPT
                            ![t].todo = @ \ {device_id},
                            ![t].snap = [ host_map |-> Put(host_map, hkey, host_id),
                                          miernik_map |-> Put(miernik_map, ckey, miernik_id) ] ]
    /\ UNCHANGED << registry, disk, adapters, objs, readers, writer >>

(* lines 708-712: Ok(AppConfig { hosts, mierniki, devices }) *)
migrate_legacy_return(t) ==
    /\ tasks[t].op = "migrate" /\ tasks[t].pc = "migrating"
    /\ tasks[t].todo = {}
    /\ tasks' = [ tasks EXCEPT ![t].pc = "done", ![t].result = "Ok",
                               ![t].snap = AppConfig(hosts, mierniki, devices) ]
    /\ UNCHANGED << registry, disk, hosts, mierniki, devices, adapters, objs, readers, writer >>

NextMigrate ==
    \E t \in Tasks :
        \/ migrate_legacy_device(t)
        \/ migrate_legacy_return(t)

SpecMigrate == InitMigrate /\ [][NextMigrate]_vars

(* C39: in the configuration the migration returns, every legacy device is
   a device whose host exists and has the connection and the timeout of the
   legacy device, and whose miernik exists and has its protocol and its
   command map, names and raw values, whatever the order in which the
   devices were visited. *)
C39_MigrationPreservesDevices ==
    \A t \in Tasks :
        (tasks[t].op = "migrate" /\ tasks[t].pc = "done") =>
            LET migrated == tasks[t].snap IN
            \A device_id \in DOMAIN disk.devices :
                LET legacy_device == disk.devices[device_id] IN
                /\ device_id \in DOMAIN migrated.devices
                /\ migrated.devices[device_id].host_id \in DOMAIN migrated.hosts
                /\ migrated.devices[device_id].miernik_id \in DOMAIN migrated.mierniki
                /\ LET host == migrated.hosts[migrated.devices[device_id].host_id]
                       miernik == migrated.mierniki[migrated.devices[device_id].miernik_id]
                   IN /\ host.connection = legacy_device.connection
                      /\ host.timeout_ms = legacy_device.timeout_ms
                      /\ miernik.protocol = legacy_device.protocol
                      /\ miernik.commands = legacy_device.commands

=============================================================================
